---- MODULE Spec2Model ----
(***************************************************************************)
(* Verification model of HImaKura's directory Carousel                     *)
(* (src/hik/data/filexp.py): a cursor over the image files listed in a     *)
(* directory at construction, which prunes entries whose file has vanished *)
(* when has_prev()/has_next() look at them.                                *)
(*                                                                         *)
(* Paths are named by their position in the directory listing: path k is   *)
(* the k-th image file that directory.iterdir() produced.  Python's        *)
(* 0-based list indices are kept: At(s, i) is s[i] in the source.          *)
(***************************************************************************)
EXTENDS Integers, Sequences, FiniteSets, Bags, TLC

\* Largest number of image files in the directory at construction.
MaxFiles == 4

\* Number of distinct strings that metadata fields and constraints draw on.
MaxStrs == 2

\* Longest characters/tags list of a metadata record.
MaxItems == 2

\* Largest number of constraints added to a FilterBuilder.
MaxConstraints == 2

\* Number of distinct file stems in the directory a Carousel is built on.
MaxStems == 2

\* Largest number of entries of that directory.
MaxEntries == 3

\* Longest list of metadata filters given to Carousel.__init__.
MaxFilters == 2

\* The longest text typed into a setter of the View.
MaxLen == 4

\* The most characters, and the most tags, of a record given to write_meta.
MaxChildren == 2

\* The most images in the directory of a View.
MaxImages == 2

VARIABLES
    image_files,          \* Carousel._image_files
    current,              \* Carousel._current
    disk,                 \* set of paths whose file exists (Path.exists())
    snapshot,             \* value of _image_files right after __init__
    last,                 \* the most recent call: operation, state before it, outcome
    asked,                \* operation and outcome of the call or event before that
    next_exhausted,       \* next() raised StopIteration and no prev() succeeded since
    prev_exhausted,       \* prev() raised StopIteration and no next() succeeded since
    jump,                 \* progress of a has_prev/prev/has_prev/prev run started
                          \* with every predecessor of the cursor deleted
    phase,                \* position of the scan script of test_carousel.py
    full_scan_results,    \* paths returned by the first forward scan
    reverse_scan_results, \* paths returned by the reverse scan
    forward_scan_results, \* paths returned by the second forward scan
    sets,                 \* FilterBuilder._sets
    verdict,              \* the latest filter obtained from the builder, the
                          \* record it was called on and what it answered
    directory,            \* the path given to Carousel.__init__ and what is there
    made,                 \* the outcome of Carousel.__init__ on directory
    held,                 \* a filter obtained from the builder and kept by the
                          \* caller, and the latest call of it
    view,                 \* the attributes of the View
    sidecars,             \* the metadata file beside each image
    called,               \* the latest call on the View or on load_meta and
                          \* write_meta, and its outcome
    running               \* a has_prev() or has_next() under way, frame by
                          \* frame, and what it has done so far

script   == <<phase, full_scan_results, reverse_scan_results, forward_scan_results>>
vars     == <<image_files, current, disk, snapshot, last, asked, next_exhausted,
              prev_exhausted, jump, phase, full_scan_results,
              reverse_scan_results, forward_scan_results, sets, verdict,
              directory, made, held, view, sidecars, called, running>>
filtering == <<sets, verdict, held>>
building == <<directory, made>>
viewing == <<view, sidecars, called, running>>
browsing == <<image_files, current, disk, snapshot, last, asked, next_exhausted,
              prev_exhausted, jump, phase, full_scan_results,
              reverse_scan_results, forward_scan_results>>

----------------------------------------------------------------------------
\* Python list helpers.

\* Whether s[i] is a legal subscript: Python accepts -len(s) <= i < len(s)
\* and raises IndexError otherwise.
InRange(s, i) == i >= 0 - Len(s) /\ i < Len(s)

\* The 1-based position that the Python subscript i designates in s.
Pos(s, i) == IF i < 0 THEN Len(s) + i + 1 ELSE i + 1

\* s[i] for a legal subscript i.
At(s, i) == s[Pos(s, i)]

\* Del deleting the entry after the one asked for, when there is one.
Del_after(s, i) == [k \in 1..(Len(s) - 1) |-> IF k <= Pos(s, i) THEN s[k] ELSE s[k + 1]]

\* del s[i] for a legal subscript i.
Del(s, i) == [k \in 1..(Len(s) - 1) |-> IF k < Pos(s, i) THEN s[k] ELSE s[k + 1]]

\* The outcome of a Carousel method: the fields it leaves behind, the value
\* it returns (ret for the boolean checks, path for the moves; path 0 means
\* that no path was returned) and the exception it raises, if any.
Outcome(files, cur, ret, path, exc) ==
    [files |-> files, cur |-> cur, ret |-> ret, path |-> path, exc |-> exc]

----------------------------------------------------------------------------
\* Carousel.has_prev

\* has_prev stepping the cursor back by one for each candidate it removes.
RECURSIVE has_prev_step(_, _, _)
has_prev_step(files, cur, fs) ==
    IF cur > 0
    THEN LET precedent == cur - 1 IN
         IF ~InRange(files, precedent)
         THEN Outcome(files, cur, FALSE, 0, "IndexError")
         ELSE IF At(files, precedent) \notin fs
              THEN has_prev_step(Del(files, precedent), cur - 1, fs)
              ELSE Outcome(files, cur, TRUE, 0, "none")
    ELSE Outcome(files, cur, FALSE, 0, "none")

RECURSIVE has_prev(_, _, _)
has_prev(files, cur, fs) ==
    IF cur > 0
    THEN LET precedent == cur - 1 IN
         IF ~InRange(files, precedent)
         THEN Outcome(files, cur, FALSE, 0, "IndexError")
         ELSE IF At(files, precedent) \notin fs
              THEN has_prev(Del(files, precedent), cur - precedent, fs)
              ELSE Outcome(files, cur, TRUE, 0, "none")
    ELSE Outcome(files, cur, FALSE, 0, "none")

\* prev returning the candidate the cursor is on before stepping back.
prev_stale(files, cur, fs) ==
    LET h == has_prev(files, cur, fs) IN
    IF h.exc # "none"
    THEN h
    ELSE IF ~h.ret
         THEN Outcome(h.files, h.cur, FALSE, 0, "StopIteration")
         ELSE IF ~InRange(h.files, h.cur)
              THEN Outcome(h.files, h.cur - 1, FALSE, 0, "IndexError")
              ELSE Outcome(h.files, h.cur - 1, FALSE, At(h.files, h.cur), "none")

\* Carousel.prev
prev(files, cur, fs) ==
    LET h == has_prev(files, cur, fs) IN
    IF h.exc # "none"
    THEN h
    ELSE IF ~h.ret
         THEN Outcome(h.files, h.cur, FALSE, 0, "StopIteration")
         ELSE IF ~InRange(h.files, h.cur - 1)
              THEN Outcome(h.files, h.cur - 1, FALSE, 0, "IndexError")
              ELSE Outcome(h.files, h.cur - 1, FALSE, At(h.files, h.cur - 1), "none")

\* has_next answering from the length alone, without looking at the disk.
has_next_unchecked(files, cur, fs) ==
    Outcome(files, cur, cur < Len(files) - 1, 0, "none")

\* has_next listing the directory again once it has run out of followers.
RECURSIVE has_next_rescan(_, _, _)
has_next_rescan(files, cur, fs) ==
    IF cur < Len(files) - 1
    THEN LET follower == cur + 1 IN
         IF ~InRange(files, follower)
         THEN Outcome(files, cur, FALSE, 0, "IndexError")
         ELSE IF At(files, follower) \notin fs
              THEN has_next_rescan(Del(files, follower), cur, fs)
              ELSE Outcome(files, cur, TRUE, 0, "none")
    ELSE LET new == fs \ {files[k] : k \in 1..Len(files)} IN
         IF new = {}
         THEN Outcome(files, cur, FALSE, 0, "none")
         ELSE Outcome(Append(files, CHOOSE p \in new : \A q \in new : p <= q),
                      cur, TRUE, 0, "none")

\* has_next removing one dead follower and answering without a retry.
has_next_once(files, cur, fs) ==
    IF cur < Len(files) - 1
    THEN LET follower == cur + 1 IN
         IF ~InRange(files, follower)
         THEN Outcome(files, cur, FALSE, 0, "IndexError")
         ELSE IF At(files, follower) \notin fs
              THEN Outcome(Del(files, follower), cur, cur < Len(files) - 2, 0, "none")
              ELSE Outcome(files, cur, TRUE, 0, "none")
    ELSE Outcome(files, cur, FALSE, 0, "none")

\* Carousel.has_next
RECURSIVE has_next(_, _, _)
has_next(files, cur, fs) ==
    IF cur < Len(files) - 1
    THEN LET follower == cur + 1 IN
         IF ~InRange(files, follower)
         THEN Outcome(files, cur, FALSE, 0, "IndexError")
         ELSE IF At(files, follower) \notin fs
              THEN has_next(Del(files, follower), cur, fs)
              ELSE Outcome(files, cur, TRUE, 0, "none")
    ELSE Outcome(files, cur, FALSE, 0, "none")

\* next returning the candidate the cursor was on before stepping forward.
next_stale(files, cur, fs) ==
    LET h == has_next(files, cur, fs) IN
    IF h.exc # "none"
    THEN h
    ELSE IF ~h.ret
         THEN Outcome(h.files, h.cur, FALSE, 0, "StopIteration")
         ELSE IF ~InRange(h.files, h.cur)
              THEN Outcome(h.files, h.cur + 1, FALSE, 0, "IndexError")
              ELSE Outcome(h.files, h.cur + 1, FALSE, At(h.files, h.cur), "none")

\* next stepping forward without asking has_next first.
next_unguarded(files, cur, fs) ==
    IF ~InRange(files, cur + 1)
    THEN Outcome(files, cur, FALSE, 0, "IndexError")
    ELSE Outcome(files, cur + 1, FALSE, At(files, cur + 1), "none")

\* Carousel.next
next(files, cur, fs) ==
    LET h == has_next(files, cur, fs) IN
    IF h.exc # "none"
    THEN h
    ELSE IF ~h.ret
         THEN Outcome(h.files, h.cur, FALSE, 0, "StopIteration")
         ELSE IF ~InRange(h.files, h.cur + 1)
              THEN Outcome(h.files, h.cur + 1, FALSE, 0, "IndexError")
              ELSE Outcome(h.files, h.cur + 1, FALSE, At(h.files, h.cur + 1), "none")

----------------------------------------------------------------------------
\* What the caller observes.

\* The record of a call: the operation, the fields before it, its outcome.
Call(op, out) ==
    [op |-> op, files0 |-> image_files, cur0 |-> current,
     ret |-> out.ret, path |-> out.path, exc |-> out.exc]

\* What the caller saw of the previous call or event.
Before == [op |-> last.op, ret |-> last.ret, exc |-> last.exc]

\* Every candidate before the cursor is gone from disk and the candidate the
\* cursor is on, at position >= 1, is still there
\* (test_file_deletion_after_creation, before its has_prev()).
OnlyCurrentLeft(files, cur, fs) ==
    /\ cur >= 1
    /\ cur < Len(files)
    /\ At(files, cur) \in fs
    /\ \A i \in 0..(cur - 1) : At(files, i) \notin fs

\* Progress of the run has_prev(), prev(), has_prev(), prev() that starts in
\* a state satisfying OnlyCurrentLeft; any other call or deletion ends it.
Jump(op) ==
    IF op = "has_prev" /\ OnlyCurrentLeft(image_files, current, disk)
    THEN [stage |-> 1, target |-> At(image_files, current)]
    ELSE IF op = "prev" /\ jump.stage = 1 THEN [jump EXCEPT !.stage = 2]
    ELSE IF op = "has_prev" /\ jump.stage = 2 THEN [jump EXCEPT !.stage = 3]
    ELSE IF op = "prev" /\ jump.stage = 3 THEN [jump EXCEPT !.stage = 4]
    ELSE [stage |-> 0, target |-> 0]

\* A call of method op with outcome out: the fields change as the method
\* left them and the observers record it.
Apply(op, out) ==
    /\ image_files' = out.files
    /\ current' = out.cur
    /\ last' = Call(op, out)
    /\ asked' = Before
    /\ next_exhausted' =
          IF op = "next" /\ out.exc = "StopIteration" THEN TRUE
          ELSE IF op = "prev" /\ out.exc = "none" THEN FALSE
          ELSE next_exhausted
    /\ prev_exhausted' =
          IF op = "prev" /\ out.exc = "StopIteration" THEN TRUE
          ELSE IF op = "next" /\ out.exc = "none" THEN FALSE
          ELSE prev_exhausted
    /\ jump' = Jump(op)
    /\ UNCHANGED <<disk, snapshot>>
    /\ UNCHANGED filtering
    /\ UNCHANGED building
    /\ UNCHANGED viewing

\* os.remove(p) by anybody: the file of path p disappears; the Carousel is
\* not told.
Remove(p) ==
    /\ p \in disk
    /\ disk' = disk \ {p}
    /\ last' = [op |-> "remove", files0 |-> image_files, cur0 |-> current,
                ret |-> FALSE, path |-> p, exc |-> "none"]
    /\ asked' = Before
    /\ jump' = [stage |-> 0, target |-> 0]
    /\ UNCHANGED <<image_files, current, snapshot, next_exhausted, prev_exhausted>>
    /\ UNCHANGED filtering
    /\ UNCHANGED building
    /\ UNCHANGED viewing

\* A file appears at path p (a new one, or one that had been deleted); the
\* Carousel is not told.
Touch(p) ==
    /\ p \notin disk
    /\ disk' = disk \cup {p}
    /\ last' = [op |-> "touch", files0 |-> image_files, cur0 |-> current,
                ret |-> FALSE, path |-> p, exc |-> "none"]
    /\ asked' = Before
    /\ jump' = [stage |-> 0, target |-> 0]
    /\ UNCHANGED <<image_files, current, snapshot, next_exhausted, prev_exhausted>>
    /\ UNCHANGED filtering
    /\ UNCHANGED building
    /\ UNCHANGED viewing

----------------------------------------------------------------------------
\* Metadata records (src/hik/data/common.py) and FilterBuilder
\* (src/hik/data/filtering.py).

\* Python's None where a string is expected; the strings are 1..MaxStrs.
None == 0

Strs == 1..MaxStrs

\* An Optional[Iterable[str]]: None, or the list items.
NoList == [some |-> FALSE, items |-> <<>>]
List(items) == [some |-> TRUE, items |-> items]

Lists == {NoList} \cup {List(l) : l \in UNION {[1..n -> Strs] : n \in 0..MaxItems}}

\* ImageMetadata(img_id, file, author, universe, characters, tags).
ImageMetadata(img_id, file, author, universe, characters, tags) ==
    [img_id |-> img_id, file |-> file, author |-> author, universe |-> universe,
     characters |-> characters, tags |-> tags]

\* What calling a filter gives: a boolean, or an exception.
Answer(ret) == [ret |-> ret, exc |-> "none"]
Raise(exc) == [ret |-> FALSE, exc |-> exc]

\* FilterBuilder.Constraint(match, inverted).
Constraint(match, inverted) == [match |-> match, inverted |-> inverted]

\* FilterBuilder.ConstraintsSet(constraints, is_disjunctive); constraints is
\* a Python set of Constraint objects, which are hashed by identity, so that
\* it holds one object per _set_constraint call: a bag of (match, inverted).
ConstraintsSet(constraints, is_disjunctive) ==
    [constraints |-> constraints, is_disjunctive |-> is_disjunctive]

Fields == {"img_id", "filename", "author", "universe", "characters", "tags"}

\* FilterBuilder.__init__: the value of _sets.
FilterBuilder ==
    [field \in Fields |->
        ConstraintsSet(EmptyBag, field \in {"img_id", "filename", "author", "universe"})]

\* FilterBuilder._set_constraint: the value of _sets afterwards.
set_constraint(ss, constraints_set, match, exclude) ==
    [ss EXCEPT ![constraints_set].constraints =
        @ (+) SetToBag({Constraint(match, exclude)})]

\* partition dropping the constraints that were added more than once.
partition_once(constraints) ==
    <<{c.match : c \in {d \in BagToSet(constraints) :
                            ~d.inverted /\ CopiesIn(d, constraints) = 1}},
      {c.match : c \in {d \in BagToSet(constraints) :
                            d.inverted /\ CopiesIn(d, constraints) = 1}}>>

\* more_itertools.partition applied to attrgetter('inverted') and followed by
\* frozenset(map(attrgetter('match'), ...)) on each half: first the matches of
\* the constraints that are not inverted, then those of the inverted ones.
partition(constraints) ==
    <<{c.match : c \in {d \in BagToSet(constraints) : ~d.inverted}},
      {c.match : c \in {d \in BagToSet(constraints) : d.inverted}}>>

\* The closures that the builder returns, as data: the branch that built
\* the lambda and the variables it captured.
Closure(kind, constraints_set, included, excluded) ==
    [kind |-> kind, constraints_set |-> constraints_set,
     included |-> included, excluded |-> excluded]

\* FilterBuilder._make_single_value_filter
make_single_value_filter(ss, constraints_set) ==
    LET included == partition(ss[constraints_set].constraints)[1]
        excluded == partition(ss[constraints_set].constraints)[2]
    IN IF Cardinality(excluded) > 0
       THEN Closure("not_in", constraints_set, included, excluded)
       ELSE IF Cardinality(included) > 0
            THEN Closure("in", constraints_set, included, excluded)
            ELSE Closure("any", constraints_set, included, excluded)

\* FilterBuilder._make_multi_value_filter
make_multi_value_filter(ss, constraints_set) ==
    LET included == partition(ss[constraints_set].constraints)[1]
        excluded == partition(ss[constraints_set].constraints)[2]
    IN IF Cardinality(included) = 0 /\ 0 = Cardinality(excluded)
       THEN Closure("any", constraints_set, included, excluded)
       ELSE IF ss[constraints_set].is_disjunctive
            THEN Closure("some", constraints_set, included, excluded)
            ELSE Closure("all", constraints_set, included, excluded)

\* wrap_none returning the absent field as an empty collection.
wrap_none_empty(o) == IF o.some THEN {o.items[k] : k \in 1..Len(o.items)} ELSE {}

\* wrap_none, as the set of the elements of the iterable it returns.
wrap_none(o) == IF o.some THEN {o.items[k] : k \in 1..Len(o.items)} ELSE {None}

\* frozenset.isdisjoint and frozenset.issubset.
isdisjoint(a, b) == a \cap b = {}
issubset(a, b) == a \subseteq b

\* The lambda of the conjunctive branch asking for some inclusion instead
\* of all of them.
all_of_any(f, values) ==
    ~isdisjoint(f.included, values) /\ isdisjoint(f.excluded, values)

\* The lambda of the conjunctive branch of _make_multi_value_filter.
all_of(f, values) ==
    issubset(f.included, values) /\ isdisjoint(f.excluded, values)

\* The lambda of the disjunctive branch accepting a record that misses
\* every exclusion instead of any exclusion.
some_of_none(f, values) ==
    ~isdisjoint(f.included, values) \/ isdisjoint(f.excluded, values)

\* The lambda of the disjunctive branch of _make_multi_value_filter.
some_of(f, values) ==
    ~isdisjoint(f.included, values) \/ ~issubset(f.excluded, values)

\* The closure reading the constraints and the mode of its field when it is
\* called instead of when it is built.
invoke_late(f, metadata) ==
    LET g == IF f.constraints_set \in {"characters", "tags"}
             THEN make_multi_value_filter(sets, f.constraints_set)
             ELSE make_single_value_filter(sets, f.constraints_set)
    IN IF g.kind = "any"
       THEN Answer(TRUE)
       ELSE IF g.constraints_set \notin DOMAIN metadata
       THEN Raise("AttributeError")
       ELSE IF g.kind = "not_in"
       THEN Answer(metadata[g.constraints_set] \notin g.excluded)
       ELSE IF g.kind = "in"
       THEN Answer(metadata[g.constraints_set] \in g.included)
       ELSE IF g.kind = "some"
       THEN Answer(some_of(g, wrap_none(metadata[g.constraints_set])))
       ELSE Answer(all_of(g, wrap_none(metadata[g.constraints_set])))

\* Calling the closure f on a record: getattr(metadata, constraints_set)
\* raises AttributeError when the record has no attribute of that name.
invoke(f, metadata) ==
    IF f.kind = "any"
    THEN Answer(TRUE)
    ELSE IF f.constraints_set \notin DOMAIN metadata
    THEN Raise("AttributeError")
    ELSE IF f.kind = "not_in"
    THEN Answer(metadata[f.constraints_set] \notin f.excluded)
    ELSE IF f.kind = "in"
    THEN Answer(metadata[f.constraints_set] \in f.included)
    ELSE IF f.kind = "some"
    THEN Answer(some_of(f, wrap_none(metadata[f.constraints_set])))
    ELSE Answer(all_of(f, wrap_none(metadata[f.constraints_set])))

\* The builder methods that compile one field's filter.
get_id_filter(ss) == make_single_value_filter(ss, "img_id")
get_filename_filter(ss) == make_single_value_filter(ss, "filename")
get_author_filter(ss) == make_single_value_filter(ss, "author")
get_universe_filter(ss) == make_single_value_filter(ss, "universe")
get_character_filter(ss) == make_multi_value_filter(ss, "characters")
get_tag_filter(ss) == make_multi_value_filter(ss, "tags")

\* get_all_filters with the filename filter put first.
get_all_filters_with_filename(ss) ==
    <<get_filename_filter(ss), get_author_filter(ss), get_universe_filter(ss),
      get_character_filter(ss), get_tag_filter(ss)>>

\* FilterBuilder.get_all_filters: the list it returns.
get_all_filters(ss) ==
    <<get_author_filter(ss), get_universe_filter(ss), get_character_filter(ss),
      get_tag_filter(ss)>>

\* characters_as_disjunctive / tags_as_disjunctive writing the flag of both
\* multi-valued fields.
as_disjunctive_both(ss, constraints_set, flag) ==
    [ss EXCEPT !["characters"].is_disjunctive = flag, !["tags"].is_disjunctive = flag]

\* characters_as_disjunctive / tags_as_disjunctive: the value of _sets
\* afterwards.
as_disjunctive(ss, constraints_set, flag) ==
    [ss EXCEPT ![constraints_set].is_disjunctive = flag]

\* Number of constraints the builder holds.
Added(ss) ==
    LET F[S \in SUBSET Fields] ==
          IF S = {} THEN 0
          ELSE LET f == CHOOSE x \in S : TRUE
               IN BagCardinality(ss[f].constraints) + F[S \ {f}]
    IN F[Fields]

\* No filter has been obtained from the builder since it last changed.
NoVerdict ==
    [filter |-> Closure("none", "none", {}, {}),
     metadata |-> ImageMetadata(1, 1, None, None, NoList, NoList),
     ret |-> FALSE, exc |-> "none"]

\* A call of one of the *_constraint methods.
Constrain(constraints_set, match, exclude) ==
    /\ Added(sets) < MaxConstraints
    /\ sets' = set_constraint(sets, constraints_set, match, exclude)
    /\ verdict' = NoVerdict
    /\ UNCHANGED held
    /\ UNCHANGED browsing
    /\ UNCHANGED building
    /\ UNCHANGED viewing

\* A call of characters_as_disjunctive or tags_as_disjunctive.
Toggle(constraints_set, flag) ==
    /\ sets' = as_disjunctive(sets, constraints_set, flag)
    /\ verdict' = NoVerdict
    /\ UNCHANGED held
    /\ UNCHANGED browsing
    /\ UNCHANGED building
    /\ UNCHANGED viewing

\* A call of get_..._filter() followed by a call of the filter on a record.
Ask(f, metadata) ==
    /\ verdict' = [filter |-> f, metadata |-> metadata,
                   ret |-> invoke(f, metadata).ret, exc |-> invoke(f, metadata).exc]
    /\ UNCHANGED <<sets, held>>
    /\ UNCHANGED browsing
    /\ UNCHANGED building
    /\ UNCHANGED viewing

\* The caller keeps no filter.
NothingHeld ==
    [filter |-> Closure("none", "none", {}, {}), is_disjunctive |-> FALSE,
     called |-> FALSE,
     metadata |-> ImageMetadata(1, 1, None, None, NoList, NoList),
     ret |-> FALSE, exc |-> "none"]

\* The caller obtains filter f from the builder and keeps it; is_disjunctive
\* of its field at that moment is noted.
Request(f) ==
    /\ held' = [NothingHeld EXCEPT !.filter = f,
                   !.is_disjunctive = sets[f.constraints_set].is_disjunctive]
    /\ UNCHANGED <<sets, verdict>>
    /\ UNCHANGED browsing
    /\ UNCHANGED building
    /\ UNCHANGED viewing

\* The caller calls the filter it keeps on a record.
CallHeld(metadata) ==
    /\ held.filter.kind # "none"
    /\ held' = [held EXCEPT !.called = TRUE, !.metadata = metadata,
                   !.ret = invoke(held.filter, metadata).ret,
                   !.exc = invoke(held.filter, metadata).exc]
    /\ UNCHANGED <<sets, verdict>>
    /\ UNCHANGED browsing
    /\ UNCHANGED building
    /\ UNCHANGED viewing

\* A builder just made, nothing asked yet.
NewBuilder ==
    /\ sets = FilterBuilder
    /\ verdict = NoVerdict
    /\ held = NothingHeld

\* The record of an image without sidecar, as load_meta makes it.
Blank == ImageMetadata(1, 1, None, None, NoList, NoList)

----------------------------------------------------------------------------
\* Carousel.__init__ and load_meta (src/hik/data/filexp.py) on a directory.

\* File name extensions of the entries, and what a sidecar may hold: nothing
\* that can be read, text that is not well-formed XML, well-formed XML whose
\* id is not a UUID, or the record of an image by author 1.
Exts == {"png", "jpg", "xml", ""}
Contents == {"unreadable", "malformed", "invalid", "valid"}

\* A directory entry: the path stem.ext, whether it is a regular file
\* (otherwise a subdirectory) and its content.
Entry(stem, ext, is_file, content) ==
    [stem |-> stem, ext |-> ext, is_file |-> is_file, content |-> content]

\* The path of an entry.
PathOf(e) == <<e.stem, e.ext>>

\* mimetypes.guess_type(p)[0], as <<type, subtype>>, <<>> for None.
guess_type(ext) ==
    CASE ext = "png" -> <<"image", "png">>
      [] ext = "jpg" -> <<"image", "jpeg">>
      [] ext = "xml" -> <<"text", "xml">>
      [] OTHER -> <<>>

\* The test on the path in apply_filters accepting every known MIME type.
is_image_file_any_type(p) == p.is_file /\ guess_type(p.ext) # <<>>

\* The test on the path in apply_filters: a regular file whose MIME type is
\* known and starts with image/.
is_image_file(p) ==
    p.is_file /\ guess_type(p.ext) # <<>> /\ guess_type(p.ext)[1] = "image"

\* What load_meta gives: a record, or an exception.
Loaded(metadata) == [metadata |-> metadata, exc |-> "none"]

\* parse_xml on the text of a sidecar (src/hik/xmngr.py): ParseError from
\* ElementTree on text that is not well-formed, ValueError from UUID() on an
\* id that is not a UUID, the record otherwise.
parse_xml(content) ==
    IF content = "malformed"
    THEN [metadata |-> Blank, exc |-> "ParseError"]
    ELSE IF content = "invalid"
    THEN [metadata |-> Blank, exc |-> "ValueError"]
    ELSE Loaded(ImageMetadata(2, 2, 1, None, NoList, NoList))

\* load_meta(img_file) in a directory whose entries are listing.
load_meta(listing, img_file) ==
    LET found == {k \in 1..Len(listing) :
                    listing[k].stem = img_file.stem /\ listing[k].ext = "xml"}
        blank == ImageMetadata(1, img_file.stem, None, None, NoList, NoList)
    IN IF found # {}
       THEN LET meta_file == listing[CHOOSE k \in found : TRUE] IN
            IF ~meta_file.is_file \/ meta_file.content = "unreadable"
            THEN Loaded(blank)
            ELSE IF parse_xml(meta_file.content).exc = "ParseError"
            THEN Loaded(blank)
            ELSE parse_xml(meta_file.content)
       ELSE Loaded(blank)

\* all(map(...)) answering True as soon as one filter does.
RECURSIVE any_filter(_, _)
any_filter(metadata_filters, metadata) ==
    IF metadata_filters = <<>>
    THEN Answer(FALSE)
    ELSE LET r == invoke(Head(metadata_filters), metadata) IN
         IF r.exc # "none" THEN r
         ELSE IF r.ret THEN Answer(TRUE)
         ELSE any_filter(Tail(metadata_filters), metadata)

\* all(map(lambda f: f(metadata), metadata_filters)): the filters are called
\* in order up to the first that returns False; an exception propagates.
RECURSIVE all_filters(_, _)
all_filters(metadata_filters, metadata) ==
    IF metadata_filters = <<>>
    THEN Answer(TRUE)
    ELSE LET r == invoke(Head(metadata_filters), metadata) IN
         IF r.exc # "none" THEN r
         ELSE IF ~r.ret THEN Answer(FALSE)
         ELSE all_filters(Tail(metadata_filters), metadata)

\* apply_filters(p), the function local to Carousel.__init__.
apply_filters(listing, metadata_filters, p) ==
    IF is_image_file(p)
    THEN IF Len(metadata_filters) > 0
         THEN LET m == load_meta(listing, p) IN
              IF m.exc # "none" THEN Raise(m.exc)
              ELSE all_filters(metadata_filters, m.metadata)
         ELSE Answer(TRUE)
    ELSE Answer(FALSE)

\* What Carousel.__init__ leaves: no object and an exception, or an object
\* with its _image_files and _current.
Failed(exc) == [created |-> FALSE, exc |-> exc, image_files |-> <<>>, current |-> -1]
Created(files) == [created |-> TRUE, exc |-> "none", image_files |-> files, current |-> -1]

\* [img for img in directory.iterdir() if apply_filters(img)] over the
\* entries from the k-th on, files being the paths kept so far.
RECURSIVE iterdir(_, _, _, _)
iterdir(listing, metadata_filters, k, files) ==
    IF k > Len(listing)
    THEN Created(files)
    ELSE LET r == apply_filters(listing, metadata_filters, listing[k]) IN
         IF r.exc # "none" THEN Failed(r.exc)
         ELSE iterdir(listing, metadata_filters, k + 1,
                      IF r.ret THEN Append(files, PathOf(listing[k])) ELSE files)

\* Carousel.__init__ testing is_dir() before exists().
Carousel_dir_first(dir, metadata_filters) ==
    IF ~dir.is_dir
    THEN Failed("NotADirectoryError")
    ELSE IF ~dir.exists
    THEN Failed("FileNotFoundError")
    ELSE iterdir(dir.listing, metadata_filters, 1, <<>>)

\* Carousel.__init__(directory, metadata_filters)
Carousel(dir, metadata_filters) ==
    IF ~dir.exists
    THEN Failed("FileNotFoundError")
    ELSE IF ~dir.is_dir
    THEN Failed("NotADirectoryError")
    ELSE iterdir(dir.listing, metadata_filters, 1, <<>>)

\* The metadata filters the Carousel is built with: the author filter of a
\* builder told to include author 1, to exclude author 1, the filename
\* filter of a builder told to include a file name, and the tag filter of a
\* new builder.
Predicates ==
    {get_author_filter(set_constraint(FilterBuilder, "author", 1, FALSE)),
     get_author_filter(set_constraint(FilterBuilder, "author", 1, TRUE)),
     get_filename_filter(set_constraint(FilterBuilder, "filename", 1, FALSE)),
     get_tag_filter(FilterBuilder)}

PredicateLists == UNION {[1..n -> Predicates] : n \in 0..MaxFilters}

\* A path that does not exist, a regular file, an empty directory.
Missing == [exists |-> FALSE, is_dir |-> FALSE, listing |-> <<>>]
RegularFile == [exists |-> TRUE, is_dir |-> FALSE, listing |-> <<>>]
EmptyDirectory == [exists |-> TRUE, is_dir |-> TRUE, listing |-> <<>>]

\* No Carousel has been asked for.
NotMade == [done |-> FALSE, metadata_filters |-> <<>>, out |-> Failed("none")]

NothingBuilt ==
    /\ directory = Missing
    /\ made = NotMade

\* An entry appears in the directory: Path.touch(), a sidecar written, or a
\* subdirectory made.
AddEntry(e) ==
    /\ directory.is_dir
    /\ ~made.done
    /\ Len(directory.listing) < MaxEntries
    /\ \A k \in 1..Len(directory.listing) : PathOf(directory.listing[k]) # PathOf(e)
    /\ directory' = [directory EXCEPT !.listing = Append(@, e)]
    /\ UNCHANGED made
    /\ UNCHANGED browsing
    /\ UNCHANGED filtering
    /\ UNCHANGED viewing

----------------------------------------------------------------------------
\* has_prev() and has_next() one frame of the recursion at a time
\* (src/hik/data/filexp.py), so that files can be deleted between the
\* frames.

\* What one frame does: the fields afterwards, the number of exists() calls
\* and of del statements, and how it ends: with a result, or with the
\* recursive call ("retry").
Frame(files, cur, checks, removals, result) ==
    [files |-> files, cur |-> cur, checks |-> checks, removals |-> removals,
     result |-> result]

\* One frame of has_prev
has_prev_frame(files, cur, fs) ==
    IF cur > 0
    THEN LET precedent == cur - 1 IN
         IF ~InRange(files, precedent)
         THEN Frame(files, cur, 0, 0, "IndexError")
         ELSE IF At(files, precedent) \notin fs
              THEN Frame(Del(files, precedent), cur - precedent, 1, 1, "retry")
              ELSE Frame(files, cur, 1, 0, "True")
    ELSE Frame(files, cur, 0, 0, "False")

\* One frame of has_next that recurses without deleting the follower.
has_next_frame_keep(files, cur, fs) ==
    IF cur < Len(files) - 1
    THEN LET follower == cur + 1 IN
         IF ~InRange(files, follower)
         THEN Frame(files, cur, 0, 0, "IndexError")
         ELSE IF At(files, follower) \notin fs
              THEN Frame(files, cur, 1, 0, "retry")
              ELSE Frame(files, cur, 1, 0, "True")
    ELSE Frame(files, cur, 0, 0, "False")

\* One frame of has_next
has_next_frame(files, cur, fs) ==
    IF cur < Len(files) - 1
    THEN LET follower == cur + 1 IN
         IF ~InRange(files, follower)
         THEN Frame(files, cur, 0, 0, "IndexError")
         ELSE IF At(files, follower) \notin fs
              THEN Frame(Del(files, follower), cur, 1, 1, "retry")
              ELSE Frame(files, cur, 1, 0, "True")
    ELSE Frame(files, cur, 0, 0, "False")

\* No call is under way.
NotRunning ==
    [op |-> "none", length |-> 0, frames |-> 0, checks |-> 0, removals |-> 0,
     result |-> "none"]

\* The caller enters op: length is len(_image_files) at that moment.
Enter(op) ==
    /\ running.op = "none" \/ running.result # "retry"
    /\ running' = [op |-> op, length |-> Len(image_files), frames |-> 0,
                   checks |-> 0, removals |-> 0, result |-> "retry"]
    /\ UNCHANGED browsing
    /\ UNCHANGED filtering
    /\ UNCHANGED building
    /\ UNCHANGED <<view, sidecars, called>>

\* The call under way runs one frame, whose outcome is out.
RunFrame(op, out) ==
    /\ running.op = op
    /\ running.result = "retry"
    /\ image_files' = out.files
    /\ current' = out.cur
    /\ running' = [running EXCEPT !.frames = @ + 1,
                                  !.checks = @ + out.checks,
                                  !.removals = @ + out.removals,
                                  !.result = out.result]
    /\ UNCHANGED <<disk, snapshot, last, asked, next_exhausted, prev_exhausted, jump>>
    /\ UNCHANGED script
    /\ UNCHANGED filtering
    /\ UNCHANGED building
    /\ UNCHANGED <<view, sidecars, called>>

----------------------------------------------------------------------------
\* Text as the View receives and stores it (src/hik/ui/view.py).  A string
\* is the sequence of its characters; the characters are two letters, the
\* comma, the ASCII space (stringprep table C.1.1), the tab (an ASCII
\* control character, table C.2.1, and white space for str.split) and the
\* zero width joiner U+200D (a non-ASCII control character, table C.2.2,
\* not white space for str.split).
Chars == {"a", "b", ",", " ", "\t", "zwj"}

\* The strings of at most n characters.
StringsUpTo(n) == UNION {[1..k -> Chars] : k \in 0..n}

\* stringprep.in_table_c11_c12 and stringprep.in_table_c21_c22.
in_table_c11_c12(ch) == ch = " "
in_table_c21_c22(ch) == ch \in {"\t", "zwj"}

\* The characters that str.split() and str.strip() take for white space.
isspace(ch) == ch \in {" ", "\t"}

\* s.split(sep) for a one-character sep: the pieces between the
\* separators, empty ones included; always at least one piece.
RECURSIVE split(_, _)
split(s, sep) ==
    IF \A k \in 1..Len(s) : s[k] # sep
    THEN <<s>>
    ELSE LET i == CHOOSE k \in 1..Len(s) :
                     s[k] = sep /\ \A j \in 1..(k - 1) : s[j] # sep
         IN <<SubSeq(s, 1, i - 1)>> \o split(SubSeq(s, i + 1, Len(s)), sep)

\* s.split(): the maximal runs of characters that are not white space.
RECURSIVE split_whitespace(_)
split_whitespace(s) ==
    IF s = <<>>
    THEN <<>>
    ELSE IF isspace(s[1])
    THEN split_whitespace(Tail(s))
    ELSE LET n == CHOOSE k \in 1..Len(s) :
                     /\ \A j \in 1..k : ~isspace(s[j])
                     /\ k = Len(s) \/ isspace(s[k + 1])
         IN <<SubSeq(s, 1, n)>> \o split_whitespace(SubSeq(s, n + 1, Len(s)))

\* sep.join(words)
RECURSIVE join(_, _)
join(sep, words) ==
    IF words = <<>> THEN <<>>
    ELSE IF Len(words) = 1 THEN words[1]
    ELSE words[1] \o sep \o join(sep, Tail(words))

\* s.strip()
RECURSIVE strip(_)
strip(s) ==
    IF s = <<>> THEN s
    ELSE IF isspace(s[1]) THEN strip(Tail(s))
    ELSE IF isspace(s[Len(s)]) THEN strip(SubSeq(s, 1, Len(s) - 1))
    ELSE s

\* remove_control_and_redundant_space returning res as it is, the redundant
\* spaces left in.
remove_control_only(s) ==
    [k \in 1..Len(s) |->
        IF ~in_table_c11_c12(s[k]) /\ ~in_table_c21_c22(s[k]) THEN s[k] ELSE " "]

\* remove_control_and_redundant_space(s)
remove_control_and_redundant_space(s) ==
    LET res == [k \in 1..Len(s) |->
                  IF ~in_table_c11_c12(s[k]) /\ ~in_table_c21_c22(s[k])
                  THEN s[k] ELSE " "]
    IN join(<<" ">>, split_whitespace(res))

\* An Optional[str]: None, or the string text.
Absent == [some |-> FALSE, text |-> <<>>]
Text(s) == [some |-> TRUE, text |-> s]

\* The value that set_author and set_universe store for an input.
set_text(input) ==
    IF Len(input) = 0
    THEN Absent
    ELSE Text(remove_control_and_redundant_space(input))

\* The value that set_characters and set_tags store for an input.
set_items(input) ==
    IF Len(input) = 0
    THEN NoList
    ELSE LET new == split(remove_control_and_redundant_space(input), ",")
         IN List([k \in 1..Len(new) |-> Text(strip(new[k]))])

----------------------------------------------------------------------------
\* The sidecar codec: generate_xml and parse_xml (src/hik/xmngr.py),
\* load_meta and write_meta (src/hik/data/filexp.py).  An image path is
\* named by its number k, and so is its name; sidecars[j] is the sidecar
\* named after stem j.

\* The file field of a record: img_file.name, a str (basename), or
\* URI(path).
basename(img_file) == [kind |-> "str", name |-> img_file]
URI(img_file) == [kind |-> "URI", name |-> img_file]

\* The id attribute of an image element: the text of a UUID, some other
\* text, or no attribute.
IdText(n) == [kind |-> "uuid", uuid |-> n]
IdOther == [kind |-> "text", uuid |-> 0]
IdMissing == [kind |-> "missing", uuid |-> 0]

\* A child element holding text, and its absence.
NoElement == [present |-> FALSE, text |-> <<>>]
Element(text) == [present |-> TRUE, text |-> text]

\* A characters or tags element with its children, and its absence.
NoSection == [present |-> FALSE, children |-> <<>>]
Section(children) == [present |-> TRUE, children |-> children]

\* The text of a sidecar: an image element with its attributes and
\* children, or text that is not an XML document.
Xml(id, filename, author, universe, characters, tags) ==
    [well_formed |-> TRUE, id |-> id, filename |-> filename, author |-> author,
     universe |-> universe, characters |-> characters, tags |-> tags]
NotXml ==
    [well_formed |-> FALSE, id |-> IdMissing, filename |-> 0, author |-> NoElement,
     universe |-> NoElement, characters |-> NoSection, tags |-> NoSection]

\* What ElementTree.tostring writes between the tags of an element whose
\* text is o: nothing for None and for the empty string.
text_of(o) == IF o.some THEN o.text ELSE <<>>

\* generate_xml writing the author as the universe and the universe as the
\* author.
generate_xml_swapped(img_id, filename, author, universe, characters, tags) ==
    Xml(IdText(img_id), filename,
        IF universe.some THEN Element(universe.text) ELSE NoElement,
        IF author.some THEN Element(author.text) ELSE NoElement,
        IF characters.some
        THEN Section([k \in 1..Len(characters.items) |-> text_of(characters.items[k])])
        ELSE NoSection,
        IF tags.some
        THEN Section([k \in 1..Len(tags.items) |-> text_of(tags.items[k])])
        ELSE NoSection)

\* generate_xml(img_id, filename, author, universe, characters, tags)
generate_xml(img_id, filename, author, universe, characters, tags) ==
    Xml(IdText(img_id), filename,
        IF author.some THEN Element(author.text) ELSE NoElement,
        IF universe.some THEN Element(universe.text) ELSE NoElement,
        IF characters.some
        THEN Section([k \in 1..Len(characters.items) |-> text_of(characters.items[k])])
        ELSE NoSection,
        IF tags.some
        THEN Section([k \in 1..Len(tags.items) |-> text_of(tags.items[k])])
        ELSE NoSection)

\* The texts that an XML document holds.
texts_of(data) ==
    {data.author.text, data.universe.text}
        \cup {data.characters.children[k] : k \in 1..Len(data.characters.children)}
        \cup {data.tags.children[k] : k \in 1..Len(data.tags.children)}

\* Characters that are not characters of XML: U+0001 and U+FFFF.
NotXmlChars == {"soh", "ffff"}

\* ElementTree.fromstring: whether the parser accepts the text.
fromstring(data) ==
    data.well_formed /\ \A t \in texts_of(data) : \A k \in 1..Len(t) : t[k] \notin NotXmlChars

\* elem.text as the parser gives it: None for no text, a carriage return
\* read as a line feed.
elem_text(t) ==
    IF t = <<>> THEN Absent
    ELSE Text([k \in 1..Len(t) |-> IF t[k] = "\r" THEN "\n" ELSE t[k]])

\* [child.text for child in image_elem.findall(...)], None when empty.
elem_texts(section) ==
    IF Len(section.children) # 0
    THEN List([k \in 1..Len(section.children) |-> elem_text(section.children[k])])
    ELSE NoList

\* parse_xml(data) on the text of a sidecar: the record, or ParseError from
\* the parser, or TypeError or ValueError from UUID().
parse_xml_data(data) ==
    LET blank == ImageMetadata(0, basename(0), Absent, Absent, NoList, NoList) IN
    IF ~fromstring(data) THEN [metadata |-> blank, exc |-> "ParseError"]
    ELSE IF data.id.kind = "missing" THEN [metadata |-> blank, exc |-> "TypeError"]
    ELSE IF data.id.kind = "text" THEN [metadata |-> blank, exc |-> "ValueError"]
    ELSE Loaded(ImageMetadata(data.id.uuid, URI(data.filename),
                              IF data.author.present THEN elem_text(data.author.text) ELSE Absent,
                              IF data.universe.present THEN elem_text(data.universe.text) ELSE Absent,
                              elem_texts(data.characters), elem_texts(data.tags)))

\* A file: whether it exists, whether it can be opened for reading and for
\* writing (for writing: created, when it does not exist), and its text.
File(exists, readable, writable, data) ==
    [exists |-> exists, readable |-> readable, writable |-> writable, data |-> data]
NoFile == File(FALSE, FALSE, TRUE, NotXml)

\* load_meta(img_file) where meta_file is the file at the sidecar's path and
\* uuid4 the value that uuid4() returns.
load_meta_file(meta_file, img_file, uuid4) ==
    LET blank == ImageMetadata(uuid4, basename(img_file), Absent, Absent, NoList, NoList) IN
    IF meta_file.exists
    THEN IF ~meta_file.readable
         THEN Loaded(blank)
         ELSE IF parse_xml_data(meta_file.data).exc = "ParseError"
         THEN Loaded(blank)
         ELSE parse_xml_data(meta_file.data)
    ELSE Loaded(blank)

\* write_meta leaving a file that cannot be opened as it is, without error.
write_meta_masked(meta_file, metadata) ==
    IF ~meta_file.writable
    THEN [file |-> meta_file, exc |-> "none"]
    ELSE [file |-> File(TRUE, IF meta_file.exists THEN meta_file.readable ELSE TRUE, TRUE,
                        generate_xml(metadata.img_id, metadata.file.name, metadata.author,
                                     metadata.universe, metadata.characters, metadata.tags)),
          exc |-> "none"]

\* write_meta(metadata, img_file) where meta_file is the file at the
\* sidecar's path: the file afterwards, and the exception raised.
write_meta(meta_file, metadata) ==
    IF ~meta_file.writable
    THEN [file |-> meta_file, exc |-> "OSError"]
    ELSE [file |-> File(TRUE, IF meta_file.exists THEN meta_file.readable ELSE TRUE, TRUE,
                        generate_xml(metadata.img_id, metadata.file.name, metadata.author,
                                     metadata.universe, metadata.characters, metadata.tags)),
          exc |-> "none"]

----------------------------------------------------------------------------
\* The View (src/hik/ui/view.py) over the Carousel and the sidecars.

\* The attributes that View.__init__ leaves unassigned, in the order in
\* which write() reads them.
Attributes == <<"_id", "_image_path", "author", "universe", "characters", "tags">>

\* A View right after __init__: assigned holds the names of the attributes
\* that have been assigned since.
NewView ==
    [assigned |-> {}, image_path |-> 0, id |-> 0, filename |-> 0,
     author |-> Absent, universe |-> Absent, characters |-> NoList, tags |-> NoList,
     current_image |-> 0]

\* self.attribute = value
assign(v, attribute, value) ==
    [[v EXCEPT !.assigned = @ \cup {attribute}] EXCEPT
        !.image_path = IF attribute = "_image_path" THEN value ELSE @,
        !.id = IF attribute = "_id" THEN value ELSE @,
        !.filename = IF attribute = "_filename" THEN value ELSE @,
        !.author = IF attribute = "author" THEN value ELSE @,
        !.universe = IF attribute = "universe" THEN value ELSE @,
        !.characters = IF attribute = "characters" THEN value ELSE @,
        !.tags = IF attribute = "tags" THEN value ELSE @,
        !.current_image = IF attribute = "_current_image" THEN value ELSE @]

\* What a method of the View leaves: the attributes and the exception.
Left(v, exc) == [view |-> v, exc |-> exc]

\* View._update_meta(meta): meta.file.path raises AttributeError when
\* meta.file is a str, after _id has been assigned.
update_meta(v, meta) ==
    IF meta.file.kind # "URI"
    THEN Left(assign(v, "_id", meta.img_id), "AttributeError")
    ELSE Left(assign(assign(assign(assign(assign(assign(v, "_id", meta.img_id),
                  "_filename", meta.file.name), "author", meta.author),
                  "universe", meta.universe), "characters", meta.characters),
                  "tags", meta.tags), "none")

\* Path.stem of an image: the images of a directory are numbered, its
\* sidecars are numbered by stem, and image k bears stem k as long as there
\* is such a stem; the images beyond repeat the stems under another
\* extension (a.png, b.png, then a.jpg, b.jpg).
path_stem(image_path) == ((image_path - 1) % Len(sidecars)) + 1

\* _construct_metadata_path(image_path): the sibling named stem + '.xml'.
construct_metadata_path(image_path) == path_stem(image_path)

\* The ids that the records in sight carry, and the value that uuid4()
\* returns: an id that none of them carries (the least such number).
InUse ==
    {view.id, called.metadata.img_id, called.written.img_id}
        \cup {sidecars[k].data.id.uuid : k \in DOMAIN sidecars}
uuid4 == CHOOSE n \in 1..(Cardinality(InUse) + 1) : n \notin InUse

\* View.load_prev / View.load_next after the Carousel's prev() / next() has
\* had outcome out.
load(v, out) ==
    IF out.exc # "none"
    THEN Left(v, out.exc)
    ELSE LET v1 == assign(v, "_image_path", out.path)
             m == load_meta_file(sidecars[construct_metadata_path(out.path)], out.path, uuid4)
         IN IF m.exc # "none" THEN Left(v1, m.exc) ELSE update_meta(v1, m.metadata)

\* GtkView.load_prev / GtkView.load_next (src/hik/ui/gui_gtk/view.py) after
\* the Carousel's prev() / next() has had outcome out: the method of the
\* View, then Pixbuf.new_from_file on the path, which gives the image of
\* that path when the file decodes and raises GLib.Error when it does not.
gtk_load(v, out, decodes) ==
    IF load(v, out).exc # "none"
    THEN load(v, out)
    ELSE IF ~decodes
    THEN Left(load(v, out).view, "GLibError")
    ELSE Left(assign(load(v, out).view, "_current_image", load(v, out).view.image_path),
              "none")

\* The first attribute that write() reads and finds unassigned, 0 if none.
unassigned(v) ==
    LET missing == {k \in 1..Len(Attributes) : Attributes[k] \notin v.assigned}
    IN IF missing = {} THEN 0 ELSE CHOOSE k \in missing : \A j \in missing : k <= j

\* The record that View.write() builds.
meta_obj(v) ==
    ImageMetadata(v.id, URI(v.image_path), v.author, v.universe, v.characters, v.tags)

\* The caller's notes: the latest call on the View or the codec, the text
\* typed for the setters, the exception raised, the record that load_meta
\* returned or write_meta was given, the record of the latest successful
\* write_meta, whether the working copy has edits that were not written, and
\* the images that were left with such edits.
NoRecord == ImageMetadata(0, basename(0), Absent, Absent, NoList, NoList)
NoCall ==
    [op |-> "none", input |-> <<>>, exc |-> "none", moved |-> FALSE,
     metadata |-> NoRecord, wrote |-> FALSE, written |-> NoRecord,
     dirty |-> FALSE, abandoned |-> {}]

\* No View has been made: there are no sidecars in sight either.
NoView ==
    /\ view = NewView
    /\ running = NotRunning
    /\ sidecars = <<>>
    /\ called = NoCall

\* What a call on the View leaves untouched outside the View, its Carousel
\* and the sidecars.
Elsewhere ==
    /\ UNCHANGED <<disk, snapshot, last, asked, next_exhausted, prev_exhausted, jump>>
    /\ UNCHANGED script
    /\ UNCHANGED filtering
    /\ UNCHANGED building
    /\ UNCHANGED running

\* A setter called with the text typed: set_author, set_universe (value is
\* set_text) or set_characters, set_tags (value is set_items).
Setter(op, attribute, value) ==
    /\ view' = assign(view, attribute, value)
    /\ called' = [called EXCEPT !.op = op, !.exc = "none", !.moved = FALSE,
                                !.dirty = TRUE]
    /\ UNCHANGED <<image_files, current, sidecars>>
    /\ Elsewhere

\* View.has_prev / View.has_next with the Carousel's outcome out.
Check(op, out) ==
    /\ image_files' = out.files
    /\ current' = out.cur
    /\ called' = [called EXCEPT !.op = op, !.exc = out.exc, !.moved = FALSE]
    /\ UNCHANGED <<view, sidecars>>
    /\ Elsewhere

\* View.load_prev / View.load_next with the Carousel's outcome out.
Load(op, out) ==
    /\ image_files' = out.files
    /\ current' = out.cur
    /\ view' = load(view, out).view
    /\ called' =
          [called EXCEPT
              !.op = op,
              !.exc = load(view, out).exc,
              !.moved = out.exc = "none",
              !.metadata = IF out.exc = "none"
                           THEN load_meta_file(sidecars[construct_metadata_path(out.path)], out.path, uuid4).metadata
                           ELSE @,
              !.dirty = IF out.exc = "none" THEN FALSE ELSE @,
              !.abandoned = IF out.exc = "none" /\ called.dirty /\ view.image_path # 0
                            THEN @ \cup {view.image_path} ELSE @]
    /\ UNCHANGED sidecars
    /\ Elsewhere

\* GtkView.load_prev / GtkView.load_next with the Carousel's outcome out on
\* a file that decodes or does not.
GtkLoad(op, out, decodes) ==
    /\ image_files' = out.files
    /\ current' = out.cur
    /\ view' = gtk_load(view, out, decodes).view
    /\ called' =
          [called EXCEPT
              !.op = op,
              !.exc = gtk_load(view, out, decodes).exc,
              !.moved = out.exc = "none",
              !.metadata = IF out.exc = "none"
                           THEN load_meta_file(sidecars[construct_metadata_path(out.path)],
                                               out.path, uuid4).metadata
                           ELSE @,
              !.dirty = IF out.exc = "none" THEN FALSE ELSE @,
              !.abandoned = IF out.exc = "none" /\ called.dirty /\ view.image_path # 0
                            THEN @ \cup {view.image_path} ELSE @]
    /\ UNCHANGED sidecars
    /\ Elsewhere

\* View.write(): AttributeError when an attribute it reads has never been
\* assigned, write_meta otherwise.
Write ==
    /\ IF unassigned(view) # 0
       THEN /\ called' = [called EXCEPT !.op = "write", !.exc = "AttributeError",
                                        !.moved = FALSE]
            /\ UNCHANGED sidecars
       ELSE LET w == write_meta(sidecars[construct_metadata_path(view.image_path)], meta_obj(view)) IN
            /\ sidecars' = [sidecars EXCEPT ![construct_metadata_path(view.image_path)] = w.file]
            /\ called' = [called EXCEPT
                             !.op = "write", !.exc = w.exc, !.moved = FALSE,
                             !.metadata = meta_obj(view),
                             !.wrote = IF w.exc = "none" THEN TRUE ELSE @,
                             !.written = IF w.exc = "none" THEN meta_obj(view) ELSE @,
                             !.dirty = IF w.exc = "none" THEN FALSE ELSE @]
    /\ UNCHANGED <<image_files, current, view>>
    /\ Elsewhere

\* load_meta(img_file) called directly.
LoadMetaOf(img_file) ==
    /\ called' = [called EXCEPT
                     !.op = "load_meta", !.moved = FALSE,
                     !.exc = load_meta_file(sidecars[construct_metadata_path(img_file)], img_file, uuid4).exc,
                     !.metadata = load_meta_file(sidecars[construct_metadata_path(img_file)], img_file, uuid4).metadata]
    /\ UNCHANGED <<image_files, current, view, sidecars>>
    /\ Elsewhere

\* write_meta(metadata, img_file) called directly.
WriteMetaTo(metadata, img_file) ==
    LET w == write_meta(sidecars[construct_metadata_path(img_file)], metadata) IN
    /\ sidecars' = [sidecars EXCEPT ![construct_metadata_path(img_file)] = w.file]
    /\ called' = [called EXCEPT
                     !.op = "write_meta", !.exc = w.exc, !.moved = FALSE,
                     !.metadata = metadata,
                     !.wrote = IF w.exc = "none" THEN TRUE ELSE @,
                     !.written = IF w.exc = "none" THEN metadata ELSE @]
    /\ UNCHANGED <<image_files, current, view>>
    /\ Elsewhere

----------------------------------------------------------------------------
\* The Carousel driven by arbitrary calls, with files deleted in between.

\* The Carousel and its observers right after __init__ has listed n image
\* files, all of them on disk, with the cursor set to c.
Constructed(n, c) ==
    /\ image_files = [k \in 1..n |-> k]
    /\ snapshot = [k \in 1..n |-> k]
    /\ disk = 1..n
    /\ current = c
    /\ last = [op |-> "init", files0 |-> <<>>, cur0 |-> c,
               ret |-> FALSE, path |-> 0, exc |-> "none"]
    /\ asked = [op |-> "none", ret |-> FALSE, exc |-> "none"]
    /\ next_exhausted = FALSE
    /\ prev_exhausted = FALSE
    /\ jump = [stage |-> 0, target |-> 0]
    /\ phase = "forward"
    /\ full_scan_results = <<>>
    /\ reverse_scan_results = <<>>
    /\ forward_scan_results = <<>>

\* Init with the cursor on the first candidate instead of before it.
Init_at_first ==
    /\ \E n \in 0..MaxFiles : Constructed(n, 0)
    /\ NewBuilder
    /\ NothingBuilt
    /\ NoView

\* Carousel.__init__ on a directory holding n image files (the other
\* entries are filtered out), all of them on disk.
Init ==
    /\ \E n \in 0..MaxFiles : Constructed(n, -1)
    /\ NewBuilder
    /\ NothingBuilt
    /\ NoView

HasPrev == Apply("has_prev", has_prev(image_files, current, disk)) /\ UNCHANGED script

GoPrev == Apply("prev", prev(image_files, current, disk)) /\ UNCHANGED script

HasNext == Apply("has_next", has_next(image_files, current, disk)) /\ UNCHANGED script

GoNext == Apply("next", next(image_files, current, disk)) /\ UNCHANGED script

Delete == (\E p \in disk : Remove(p)) /\ UNCHANGED script

Next == HasPrev \/ GoPrev \/ HasNext \/ GoNext \/ Delete

Spec == Init /\ [][Next]_vars

\* The same with files also appearing in the directory after construction.
Create == (\E p \in (1..MaxFiles) \ disk : Touch(p)) /\ UNCHANGED script

NextDrift == HasPrev \/ GoPrev \/ HasNext \/ GoNext \/ Delete \/ Create

SpecDrift == Init /\ [][NextDrift]_vars

----------------------------------------------------------------------------
\* A FilterBuilder on which constraints are accumulated and modes toggled,
\* and whose filters are obtained and called on records.

InitFilter ==
    /\ Constructed(0, -1)
    /\ NewBuilder
    /\ NothingBuilt
    /\ NoView

IdConstraint == \E v \in Strs, e \in BOOLEAN : Constrain("img_id", v, e)

FilenameConstraint == \E v \in Strs, e \in BOOLEAN : Constrain("filename", v, e)

AuthorConstraint == \E v \in Strs \cup {None}, e \in BOOLEAN : Constrain("author", v, e)

UniverseConstraint == \E v \in Strs \cup {None}, e \in BOOLEAN : Constrain("universe", v, e)

CharacterConstraint == \E v \in Strs \cup {None}, e \in BOOLEAN : Constrain("characters", v, e)

TagConstraint == \E v \in Strs \cup {None}, e \in BOOLEAN : Constrain("tags", v, e)

CharactersAsDisjunctive == \E flag \in BOOLEAN : Toggle("characters", flag)

TagsAsDisjunctive == \E flag \in BOOLEAN : Toggle("tags", flag)

GetIdFilter ==
    \E v \in Strs : Ask(get_id_filter(sets), [Blank EXCEPT !.img_id = v])

GetFilenameFilter ==
    \E v \in Strs : Ask(get_filename_filter(sets), [Blank EXCEPT !.file = v])

GetAuthorFilter ==
    \E v \in Strs \cup {None} : Ask(get_author_filter(sets), [Blank EXCEPT !.author = v])

GetUniverseFilter ==
    \E v \in Strs \cup {None} : Ask(get_universe_filter(sets), [Blank EXCEPT !.universe = v])

GetCharacterFilter ==
    \E v \in Lists : Ask(get_character_filter(sets), [Blank EXCEPT !.characters = v])

GetTagFilter ==
    \E v \in Lists : Ask(get_tag_filter(sets), [Blank EXCEPT !.tags = v])

NextFilter ==
    \/ IdConstraint \/ FilenameConstraint \/ AuthorConstraint \/ UniverseConstraint
    \/ CharacterConstraint \/ TagConstraint
    \/ CharactersAsDisjunctive \/ TagsAsDisjunctive
    \/ GetIdFilter \/ GetFilenameFilter \/ GetAuthorFilter \/ GetUniverseFilter
    \/ GetCharacterFilter \/ GetTagFilter

SpecFilter == InitFilter /\ [][NextFilter]_vars

----------------------------------------------------------------------------
\* A FilterBuilder whose caller accumulates constraints on characters and
\* tags, obtains a filter and keeps it, and then toggles the modes and
\* calls the filter it kept.

InitMode ==
    /\ Constructed(0, -1)
    /\ NewBuilder
    /\ NothingBuilt
    /\ NoView

ConstrainCharacters == held = NothingHeld /\ CharacterConstraint

ConstrainTags == held = NothingHeld /\ TagConstraint

RequestCharacterFilter == Request(get_character_filter(sets))

RequestTagFilter == Request(get_tag_filter(sets))

CallFilter ==
    \E v \in Lists : CallHeld([Blank EXCEPT ![held.filter.constraints_set] = v])

NextMode ==
    \/ ConstrainCharacters \/ ConstrainTags
    \/ CharactersAsDisjunctive \/ TagsAsDisjunctive
    \/ RequestCharacterFilter \/ RequestTagFilter
    \/ CallFilter

SpecMode == InitMode /\ [][NextMode]_vars

----------------------------------------------------------------------------
\* A filter obtained from the builder, called at once, and called again
\* after the builder has been given more constraints and other modes.

\* The records the filter of a field is called on.
SnapshotRecords(constraints_set) ==
    IF constraints_set = "tags"
    THEN {[Blank EXCEPT !.tags = v] : v \in Lists}
    ELSE {[Blank EXCEPT !.author = v] : v \in Strs \cup {None}}

\* f = get_..._filter() and a first call of f, both kept by the caller.
Obtain(f, metadata) ==
    /\ held = NothingHeld
    /\ held' = [NothingHeld EXCEPT !.filter = f,
                   !.is_disjunctive = sets[f.constraints_set].is_disjunctive]
    /\ verdict' = [filter |-> f, metadata |-> metadata,
                   ret |-> invoke(f, metadata).ret, exc |-> invoke(f, metadata).exc]
    /\ UNCHANGED sets
    /\ UNCHANGED browsing
    /\ UNCHANGED building
    /\ UNCHANGED viewing

\* A call of one of the *_constraint methods while the caller keeps what
\* it has.
ConstrainKeeping(constraints_set, match, exclude) ==
    /\ Added(sets) < MaxConstraints
    /\ sets' = set_constraint(sets, constraints_set, match, exclude)
    /\ UNCHANGED <<verdict, held>>
    /\ UNCHANGED browsing
    /\ UNCHANGED building
    /\ UNCHANGED viewing

\* A call of tags_as_disjunctive while the caller keeps what it has.
ToggleKeeping(constraints_set, flag) ==
    /\ sets' = as_disjunctive(sets, constraints_set, flag)
    /\ UNCHANGED <<verdict, held>>
    /\ UNCHANGED browsing
    /\ UNCHANGED building
    /\ UNCHANGED viewing

AddAuthorConstraint ==
    \E v \in Strs \cup {None}, e \in BOOLEAN : ConstrainKeeping("author", v, e)

AddTagConstraint ==
    \E v \in Strs \cup {None}, e \in BOOLEAN : ConstrainKeeping("tags", v, e)

SetTagsMode == \E flag \in BOOLEAN : ToggleKeeping("tags", flag)

ObtainAuthorFilter ==
    \E m \in SnapshotRecords("author") : Obtain(get_author_filter(sets), m)

ObtainTagFilter ==
    \E m \in SnapshotRecords("tags") : Obtain(get_tag_filter(sets), m)

CallAgain == CallHeld(verdict.metadata)

NextSnapshot ==
    \/ AddAuthorConstraint \/ AddTagConstraint \/ SetTagsMode
    \/ ObtainAuthorFilter \/ ObtainTagFilter
    \/ CallAgain

SpecSnapshot == InitMode /\ [][NextSnapshot]_vars

----------------------------------------------------------------------------
\* Carousel.__init__ called on a path: nothing there, a regular file, or a
\* directory that has been filled as the tests of TestCarouselConstruction
\* fill it.

InitConstruct ==
    /\ Constructed(0, -1)
    /\ NewBuilder
    /\ directory \in {Missing, RegularFile, EmptyDirectory}
    /\ made = NotMade
    /\ NoView

TouchImage ==
    \E stem \in 1..MaxStems, ext \in {"png", "jpg"} : AddEntry(Entry(stem, ext, TRUE, ""))

TouchOther ==
    \E stem \in 1..MaxStems : AddEntry(Entry(stem, "", TRUE, ""))

WriteSidecar ==
    \E stem \in 1..MaxStems, content \in Contents : AddEntry(Entry(stem, "xml", TRUE, content))

Mkdir ==
    \E stem \in 1..MaxStems, ext \in {"png", "xml"} : AddEntry(Entry(stem, ext, FALSE, ""))

Construct ==
    /\ ~made.done
    /\ \E metadata_filters \in PredicateLists :
          made' = [done |-> TRUE, metadata_filters |-> metadata_filters,
                   out |-> Carousel(directory, metadata_filters)]
    /\ UNCHANGED directory
    /\ UNCHANGED browsing
    /\ UNCHANGED filtering
    /\ UNCHANGED viewing

NextConstruct == TouchImage \/ TouchOther \/ WriteSidecar \/ Mkdir \/ Construct

SpecConstruct == InitConstruct /\ [][NextConstruct]_vars

----------------------------------------------------------------------------
\* View.__init__ on a directory of images and sidecars, with the filters of
\* a FilterBuilder on which id, filename and author constraints have been
\* accumulated, or without a FilterBuilder.

WriteValidSidecar ==
    \E stem \in 1..MaxStems : AddEntry(Entry(stem, "xml", TRUE, "valid"))

BuilderIdConstraint == ~made.done /\ IdConstraint

BuilderFilenameConstraint == ~made.done /\ FilenameConstraint

BuilderAuthorConstraint == ~made.done /\ AuthorConstraint

\* View.__init__(context_dir, filter_factory); the builder is
\* filter_factory, unless None is given.
ConstructView ==
    /\ ~made.done
    /\ \E metadata_filters \in {<<>>, get_all_filters(sets)} :
          made' = [done |-> TRUE, metadata_filters |-> metadata_filters,
                   out |-> Carousel(directory, metadata_filters)]
    /\ UNCHANGED directory
    /\ UNCHANGED browsing
    /\ UNCHANGED filtering
    /\ UNCHANGED viewing

NextBuild ==
    \/ TouchImage \/ WriteValidSidecar
    \/ BuilderIdConstraint \/ BuilderFilenameConstraint \/ BuilderAuthorConstraint
    \/ ConstructView

SpecBuild == InitConstruct /\ [][NextBuild]_vars

----------------------------------------------------------------------------
\* The setters of a View called, in any order and any number of times, with
\* one text typed by the user.

InitEdit ==
    /\ Constructed(0, -1)
    /\ NewBuilder
    /\ NothingBuilt
    /\ view = NewView
    /\ running = NotRunning
    /\ sidecars = <<>>
    /\ \E input \in StringsUpTo(MaxLen) : called = [NoCall EXCEPT !.input = input]

SetAuthor == Setter("set_author", "author", set_text(called.input))

SetUniverse == Setter("set_universe", "universe", set_text(called.input))

SetCharacters == Setter("set_characters", "characters", set_items(called.input))

SetTags == Setter("set_tags", "tags", set_items(called.input))

NextEdit == SetAuthor \/ SetUniverse \/ SetCharacters \/ SetTags

SpecEdit == InitEdit /\ [][NextEdit]_vars

----------------------------------------------------------------------------
\* load_meta and write_meta called on one image, whose sidecar starts in one
\* of the states that the tests of test_load_store_meta.py set up; one
\* record is written, and a write that failed is not tried again at once.

\* A sidecar as write_meta leaves it for a record with author, characters
\* and no universe or tags.
SomeXml ==
    Xml(IdText(2), 1, Element(<<"a">>), NoElement, Section(<<<<"a">>, <<"b">>>>), NoSection)

\* The states of a sidecar: missing (in a directory where it can or cannot
\* be created), holding a record, holding one without read permission
\* (mode 0o222) or without write permission, holding an unclosed tag,
\* holding an image element whose id is no UUID or is missing.
SidecarStates ==
    {NoFile, File(FALSE, FALSE, FALSE, NotXml),
     File(TRUE, TRUE, TRUE, SomeXml), File(TRUE, FALSE, TRUE, SomeXml),
     File(TRUE, TRUE, FALSE, SomeXml), File(TRUE, TRUE, TRUE, NotXml),
     File(TRUE, TRUE, TRUE, [SomeXml EXCEPT !.id = IdOther]),
     File(TRUE, TRUE, TRUE, [SomeXml EXCEPT !.id = IdMissing])}

\* The strings of the records written: the empty string, a letter, U+0001
\* and a carriage return.
CodecStrings == {<<>>, <<"a">>, <<"soh">>, <<"\r">>}

ListsOver(strings) ==
    {NoList} \cup {List(l) : l \in UNION {[1..n -> {Text(x) : x \in strings}] :
                                             n \in 0..MaxChildren}}

\* The records given to write_meta for image 1.
Records ==
    {ImageMetadata(1, URI(1), author, universe, characters, tags) :
        author \in {Absent} \cup {Text(x) : x \in CodecStrings},
        universe \in {Absent, Text(<<>>), Text(<<"b">>)},
        characters \in ListsOver(CodecStrings),
        tags \in ListsOver({<<"a">>, <<"b">>})}

InitCodec ==
    /\ Constructed(1, -1)
    /\ NewBuilder
    /\ NothingBuilt
    /\ view = NewView
    /\ running = NotRunning
    /\ \E meta_file \in SidecarStates : sidecars = <<meta_file>>
    /\ called = NoCall

LoadMeta == LoadMetaOf(1)

WriteMeta ==
    /\ ~called.wrote
    /\ called.op # "write_meta"
    /\ \E metadata \in Records : WriteMetaTo(metadata, 1)

NextCodec == LoadMeta \/ WriteMeta

SpecCodec == InitCodec /\ [][NextCodec]_vars

----------------------------------------------------------------------------
\* A View over a directory of images, each with or without a sidecar, driven
\* by arbitrary calls; the user types one text, as author and as characters.

\* The record persisted for image k before the View is made.
PersistedXml(k) ==
    Xml(IdText(k), k, Element(<<"a">>), NoElement, Section(<<<<"a">>, <<"b">>>>), NoSection)

\* The states of the sidecar of image k: missing, holding a record, holding
\* one without read permission, holding one without write permission.
ViewSidecars(k) ==
    {NoFile, File(TRUE, TRUE, TRUE, PersistedXml(k)),
     File(TRUE, FALSE, TRUE, PersistedXml(k)), File(TRUE, TRUE, FALSE, PersistedXml(k))}

\* The text typed.
ViewInputs == {<<"b", ",", "a">>}

InitView ==
    /\ \E n \in 1..MaxImages :
          /\ Constructed(n, -1)
          /\ sidecars \in [1..n -> UNION {ViewSidecars(k) : k \in 1..n}]
          /\ \A k \in 1..n : sidecars[k] \in ViewSidecars(k)
    /\ NewBuilder
    /\ NothingBuilt
    /\ view = NewView
    /\ running = NotRunning
    /\ \E input \in ViewInputs : called = [NoCall EXCEPT !.input = input]

ViewHasPrev == Check("has_prev", has_prev(image_files, current, disk))

ViewHasNext == Check("has_next", has_next(image_files, current, disk))

LoadPrev == Load("load_prev", prev(image_files, current, disk))

LoadNext == Load("load_next", next(image_files, current, disk))

\* View.write(), until it has succeeded once.
WriteOnce == ~called.wrote /\ Write

NextView ==
    \/ ViewHasPrev \/ ViewHasNext \/ LoadPrev \/ LoadNext
    \/ SetAuthor \/ SetCharacters
    \/ WriteOnce

SpecView == InitView /\ [][NextView]_vars

----------------------------------------------------------------------------
\* A View browsed while image files are deleted from its directory; the
\* user types one text as author.

DeleteImage == (\E p \in disk : Remove(p)) /\ UNCHANGED script

NextBrowse ==
    \/ ViewHasPrev \/ ViewHasNext \/ LoadPrev \/ LoadNext
    \/ SetAuthor
    \/ DeleteImage

SpecBrowse == InitView /\ [][NextBrowse]_vars

----------------------------------------------------------------------------
\* The script of test_metadata_update: a View on one image with a sidecar
\* is loaded, the user types one text into setters, the View is written
\* and the metadata of the image are loaded.

\* The texts typed: a letter, a space, a list with an empty item, U+FFFF.
SaveInputs == {<<"b">>, <<" ">>, <<"a", ",", ",", "b">>, <<"ffff">>}

InitSave ==
    /\ Constructed(1, -1)
    /\ NewBuilder
    /\ NothingBuilt
    /\ view = NewView
    /\ running = NotRunning
    /\ sidecars = <<File(TRUE, TRUE, TRUE, PersistedXml(1))>>
    /\ \E input \in SaveInputs : called = [NoCall EXCEPT !.input = input]

NextSave ==
    \/ LoadNext
    \/ SetAuthor \/ SetUniverse \/ SetCharacters \/ SetTags
    \/ WriteOnce
    \/ LoadMeta

SpecSave == InitSave /\ [][NextSave]_vars

----------------------------------------------------------------------------
\* has_prev() and has_next() run frame by frame, with files deleted before
\* and during the calls; next() and prev() are called between them.

NotMidCall == running.result # "retry"

EnterHasPrev == Enter("has_prev")

EnterHasNext == Enter("has_next")

HasPrevFrame == RunFrame("has_prev", has_prev_frame(image_files, current, disk))

HasNextFrame == RunFrame("has_next", has_next_frame(image_files, current, disk))

NextRetry ==
    \/ EnterHasPrev \/ HasPrevFrame \/ EnterHasNext \/ HasNextFrame
    \/ (NotMidCall /\ GoNext) \/ (NotMidCall /\ GoPrev)
    \/ Delete

SpecRetry == Init /\ [][NextRetry]_vars

----------------------------------------------------------------------------
\* A View over a directory in which images may share a stem (a.png and
\* a.jpg), each stem with or without a sidecar; the user types one text as
\* author, writes, and the metadata of any image are loaded.

InitTwins ==
    /\ \E n \in 1..MaxImages, stems \in 1..MaxImages :
          /\ stems <= n
          /\ Constructed(n, -1)
          /\ sidecars \in [1..stems ->
                 {NoFile} \cup {File(TRUE, TRUE, TRUE, PersistedXml(k)) : k \in 1..stems}]
          /\ \A k \in 1..stems :
                 sidecars[k] \in {NoFile, File(TRUE, TRUE, TRUE, PersistedXml(k))}
    /\ NewBuilder
    /\ NothingBuilt
    /\ view = NewView
    /\ running = NotRunning
    /\ \E input \in ViewInputs : called = [NoCall EXCEPT !.input = input]

LoadMetaOfAny == \E img_file \in 1..Len(snapshot) : LoadMetaOf(img_file)

NextTwins ==
    \/ LoadPrev \/ LoadNext
    \/ SetAuthor
    \/ WriteOnce
    \/ LoadMetaOfAny

SpecTwins == InitTwins /\ [][NextTwins]_vars

----------------------------------------------------------------------------
\* A GtkView over a directory of images that all have a sidecar; an image
\* file holds an image or bytes that are none, and may be rewritten
\* between two calls.

InitGtk ==
    /\ \E n \in 1..MaxImages :
          /\ Constructed(n, -1)
          /\ sidecars = [k \in 1..n |-> File(TRUE, TRUE, TRUE, PersistedXml(k))]
    /\ NewBuilder
    /\ NothingBuilt
    /\ view = NewView
    /\ running = NotRunning
    /\ \E input \in ViewInputs : called = [NoCall EXCEPT !.input = input]

GtkLoadPrev ==
    \E decodes \in BOOLEAN : GtkLoad("load_prev", prev(image_files, current, disk), decodes)

GtkLoadNext ==
    \E decodes \in BOOLEAN : GtkLoad("load_next", next(image_files, current, disk), decodes)

NextGtk ==
    \/ ViewHasPrev \/ ViewHasNext
    \/ GtkLoadPrev \/ GtkLoadNext
    \/ SetAuthor
    \/ WriteOnce

SpecGtk == InitGtk /\ [][NextGtk]_vars

----------------------------------------------------------------------------
\* The scan script of test_carousel.py: next() until StopIteration, then
\* prev() until StopIteration, then next() until StopIteration, with
\* has_prev()/has_next() asked at any point and, as in
\* test_file_deletion_after_creation, files deleted before the first scan
\* reaches them.

\* Where the script goes when a scan's call raised exc: on to the following
\* scan on StopIteration, to "error" on anything else.
AfterRaise(exc, following) == IF exc = "StopIteration" THEN following ELSE "error"

ScanForward ==
    /\ phase = "forward"
    /\ LET out == next(image_files, current, disk) IN
         /\ Apply("next", out)
         /\ IF out.exc = "none"
            THEN /\ full_scan_results' = Append(full_scan_results, out.path)
                 /\ phase' = phase
            ELSE /\ full_scan_results' = full_scan_results
                 /\ phase' = AfterRaise(out.exc, "reverse")
    /\ UNCHANGED <<reverse_scan_results, forward_scan_results>>

ScanReverse ==
    /\ phase = "reverse"
    /\ LET out == prev(image_files, current, disk) IN
         /\ Apply("prev", out)
         /\ IF out.exc = "none"
            THEN /\ reverse_scan_results' = Append(reverse_scan_results, out.path)
                 /\ phase' = phase
            ELSE /\ reverse_scan_results' = reverse_scan_results
                 /\ phase' = AfterRaise(out.exc, "again")
    /\ UNCHANGED <<full_scan_results, forward_scan_results>>

ScanAgain ==
    /\ phase = "again"
    /\ LET out == next(image_files, current, disk) IN
         /\ Apply("next", out)
         /\ IF out.exc = "none"
            THEN /\ forward_scan_results' = Append(forward_scan_results, out.path)
                 /\ phase' = phase
            ELSE /\ forward_scan_results' = forward_scan_results
                 /\ phase' = AfterRaise(out.exc, "done")
    /\ UNCHANGED <<full_scan_results, reverse_scan_results>>

\* A candidate the first scan has not reached yet is deleted.
DeleteAhead ==
    /\ phase = "forward"
    /\ \E i \in (current + 1)..(Len(image_files) - 1) : Remove(At(image_files, i))
    /\ UNCHANGED script

NextScan == ScanForward \/ ScanReverse \/ ScanAgain \/ HasPrev \/ HasNext \/ DeleteAhead

SpecScan == Init /\ [][NextScan]_vars

----------------------------------------------------------------------------
\* Vocabulary of the properties.

\* The set of entries of a sequence.
Range(s) == {s[k] : k \in 1..Len(s)}

\* The subsequence of s made of the entries at the (1-based) positions in K.
Restrict(s, K) ==
    LET F[i \in 0..Len(s)] ==
          IF i = 0 THEN <<>>
          ELSE IF i \in K THEN Append(F[i - 1], s[i]) ELSE F[i - 1]
    IN F[Len(s)]

\* s back to front.
Reverse(s) == [k \in 1..Len(s) |-> s[Len(s) + 1 - k]]

IsPrefix(s, t) == Len(s) <= Len(t) /\ s = SubSeq(t, 1, Len(s))

\* The 0-based indices of the candidates of files that precede cur and are on
\* disk, and of those that follow cur and are on disk.
LiveBefore(files, cur, fs) == {i \in 0..(Len(files) - 1) : i < cur /\ At(files, i) \in fs}
LiveAfter(files, cur, fs) == {i \in 0..(Len(files) - 1) : i > cur /\ At(files, i) \in fs}

Max(S) == CHOOSE x \in S : \A y \in S : y <= x
Min(S) == CHOOSE x \in S : \A y \in S : x <= y

\* files without the candidates lying strictly between the nearest live
\* predecessor of cur (or the start) and cur.
PrunedBefore(files, cur, fs) ==
    LET live == LiveBefore(files, cur, fs)
        from == IF live = {} THEN -1 ELSE Max(live)
    IN Restrict(files, {k \in 1..Len(files) : k - 1 <= from \/ k - 1 >= cur})

\* files without the candidates lying strictly between cur and its nearest
\* live follower (or the end).
PrunedAfter(files, cur, fs) ==
    LET live == LiveAfter(files, cur, fs)
        upto == IF live = {} THEN Len(files) ELSE Min(live)
    IN Restrict(files, {k \in 1..Len(files) : k - 1 <= cur \/ k - 1 >= upto})

Moves == {"next", "prev"}
Checks == {"has_next", "has_prev"}

----------------------------------------------------------------------------
\* Properties of the Carousel under arbitrary calls and deletions (Spec).

\* C1: a path returned by next() or prev() designates a file that is on disk
\* at the moment of the call.
C1_ReturnedPathExists ==
    (last.op \in Moves /\ last.exc = "none") => last.path \in disk

\* C1 witness: a move returned a path after pruning deleted candidates.
C1_Witness ==
    /\ last.op \in Moves
    /\ last.exc = "none"
    /\ Len(image_files) < Len(last.files0)
    /\ last.path \in disk

\* C2: has_prev() returns True iff a candidate before the cursor is still on
\* disk, and it removes exactly the dead candidates between the nearest live
\* predecessor (or the start) and the cursor.
C2_HasPrevIffLivePredecessor ==
    last.op = "has_prev" =>
        /\ last.exc = "none"
        /\ last.ret <=> (LiveBefore(last.files0, last.cur0, disk) # {})
        /\ image_files = PrunedBefore(last.files0, last.cur0, disk)

\* C3: has_next() returns True iff a candidate after the cursor is still on
\* disk; on return the dead candidates between the cursor and the first live
\* follower (all the followers on False) are gone from the sequence and
\* nothing else has changed.
C3_HasNextIffLiveFollower ==
    last.op = "has_next" =>
        /\ last.exc = "none"
        /\ last.ret <=> (LiveAfter(last.files0, last.cur0, disk) # {})
        /\ image_files = PrunedAfter(last.files0, last.cur0, disk)
        /\ current = last.cur0

\* C3 witness: has_next() answered True after removing two dead followers.
C3_Witness ==
    /\ last.op = "has_next"
    /\ last.ret
    /\ Len(last.files0) - Len(image_files) >= 2

\* C4: the cursor stays within -1..len(_image_files) and no call subscripts
\* the sequence out of range.
C4_CursorInRange ==
    /\ current >= -1
    /\ current <= Len(image_files)
    /\ last.exc # "IndexError"

\* C7: once next() has raised StopIteration every later next() raises it
\* until a prev() succeeds, and the same for prev() until a next() succeeds.
C7_ExhaustionSticks ==
    /\ (last.op = "next" /\ next_exhausted) => last.exc = "StopIteration"
    /\ (last.op = "prev" /\ prev_exhausted) => last.exc = "StopIteration"

C10_StuckWhenAllGone ==
    (Range(last.files0) \cap disk = {}) =>
        /\ last.op \in Checks => (last.exc = "none" /\ ~last.ret)
        /\ last.op \in Moves => last.exc = "StopIteration"

\* C12: with nothing changing on disk in between, has_next() is True
\* exactly when the next() right after it returns a path and False exactly
\* when that next() raises StopIteration; the same for has_prev() and prev().
C12_CheckAgreesWithMove ==
    /\ (asked.op = "has_next" /\ last.op = "next") =>
          /\ (asked.exc = "none" /\ asked.ret) <=> (last.exc = "none")
          /\ (asked.exc = "none" /\ ~asked.ret) <=> (last.exc = "StopIteration")
    /\ (asked.op = "has_prev" /\ last.op = "prev") =>
          /\ (asked.exc = "none" /\ asked.ret) <=> (last.exc = "none")
          /\ (asked.exc = "none" /\ ~asked.ret) <=> (last.exc = "StopIteration")

\* C12 witness: has_next() said False after files had been pruned and the
\* next() right after it raised StopIteration.
C12_Witness ==
    /\ asked.op = "has_next"
    /\ ~asked.ret
    /\ last.op = "next"
    /\ last.exc = "StopIteration"
    /\ Len(image_files) < Len(snapshot)
    /\ image_files # <<>>

\* C13: a fresh Carousel has its cursor before the first candidate:
\* has_prev() is False, prev() raises StopIteration, the first next() that
\* succeeds returns the first candidate of the snapshot still on disk, and
\* on an empty snapshot prev() and next() raise StopIteration.
C13_FreshCursorBeforeFirst ==
    /\ last.op = "init" => current = -1
    /\ (last.cur0 = -1 /\ last.op = "has_prev") => (last.exc = "none" /\ ~last.ret)
    /\ (last.cur0 = -1 /\ last.op = "prev") => last.exc = "StopIteration"
    /\ (last.cur0 = -1 /\ last.op = "next" /\ last.exc = "none") =>
          LET live == {k \in 1..Len(snapshot) : snapshot[k] \in disk} IN
          live # {} /\ last.path = snapshot[Min(live)]
    /\ (snapshot = <<>> /\ last.op \in Moves) => last.exc = "StopIteration"

\* C13 witness: the first next() of a Carousel whose first candidate was
\* deleted returned the second one.
C13_Witness ==
    /\ last.cur0 = -1
    /\ last.op = "next"
    /\ last.exc = "none"
    /\ Len(snapshot) >= 2
    /\ last.path = snapshot[2]

----------------------------------------------------------------------------
\* Properties of the Carousel with files appearing as well (SpecDrift).

\* C11: the candidate sequence is an order-preserving subsequence of the
\* snapshot; a call only removes entries, each of them absent from disk at
\* that moment; a file created after construction is never added to the
\* sequence nor returned by next()/prev().
C11_OnlyRemovals ==
    /\ image_files = SelectSeq(snapshot, LAMBDA p : p \in Range(image_files))
    /\ last.op # "init" =>
          /\ image_files = SelectSeq(last.files0, LAMBDA p : p \in Range(image_files))
          /\ (Range(last.files0) \ Range(image_files)) \cap disk = {}
    /\ (last.op \in Moves /\ last.exc = "none") => last.path \in Range(snapshot)

\* C11 witness: a move returned a path after an entry had been pruned, while
\* a file that is not in the snapshot and a pruned file created again are
\* on disk.
C11_Witness ==
    /\ last.op \in Moves
    /\ last.exc = "none"
    /\ disk \ Range(snapshot) # {}
    /\ (Range(snapshot) \ Range(image_files)) \cap disk # {}

----------------------------------------------------------------------------
\* Properties of the scans (SpecScan).

\* C5: with no file deleted, next() until StopIteration returns every
\* candidate of the snapshot exactly once, in snapshot order.
C5_FullForwardScan ==
    (disk = Range(snapshot)) =>
        /\ phase # "error"
        /\ IsPrefix(full_scan_results, snapshot)
        /\ phase # "forward" => full_scan_results = snapshot

\* C5 witness: a scan of three or more files has ended and nothing was
\* deleted.
C5_Witness ==
    /\ phase = "reverse"
    /\ disk = Range(snapshot)
    /\ Len(full_scan_results) >= 3

\* C6: with candidates deleted before the cursor reaches them, the forward
\* scan returns exactly the candidates still on disk, once each and in
\* snapshot order, raises nothing but the final StopIteration, and has_next()
\* is False afterwards.
C6_ScanSkipsDeleted ==
    /\ phase # "error"
    /\ phase # "forward" =>
          full_scan_results = SelectSeq(snapshot, LAMBDA p : p \in disk)
    /\ (phase = "reverse" /\ reverse_scan_results = <<>> /\ last.op = "has_next") =>
          (last.exc = "none" /\ ~last.ret)

\* C6 witness: the scan ended having skipped two deleted files and returned
\* two others, and has_next() has been asked.
C6_Witness ==
    /\ phase = "reverse"
    /\ reverse_scan_results = <<>>
    /\ last.op = "has_next"
    /\ Len(full_scan_results) >= 2
    /\ Len(snapshot) - Len(full_scan_results) >= 2

\* C8: with no file deleted and N >= 2 candidates, the reverse scan that
\* follows a full forward scan starts with the second-to-last visited path
\* and returns the N-1 earlier paths in reverse visiting order, never the
\* last visited one; the forward scan after it returns the paths after the
\* one the cursor is on.
C8_ReverseScan ==
    LET N == Len(snapshot) IN
    (disk = Range(snapshot) /\ N >= 2 /\ phase \in {"reverse", "again", "done"}) =>
        /\ Len(full_scan_results) = N
        /\ IsPrefix(reverse_scan_results, Reverse(SubSeq(full_scan_results, 1, N - 1)))
        /\ reverse_scan_results # <<>> => reverse_scan_results[1] = full_scan_results[N - 1]
        /\ full_scan_results[N] \notin Range(reverse_scan_results)
        /\ phase # "reverse" =>
              reverse_scan_results = Reverse(SubSeq(full_scan_results, 1, N - 1))
        /\ IsPrefix(forward_scan_results, SubSeq(full_scan_results, 2, N))
        /\ phase = "done" => forward_scan_results = SubSeq(full_scan_results, 2, N)

\* C8 witness: the three scans are over on three or more files.
C8_Witness ==
    /\ phase = "done"
    /\ disk = Range(snapshot)
    /\ Len(snapshot) >= 3
    /\ Len(reverse_scan_results) >= 2
    /\ Len(forward_scan_results) >= 2

----------------------------------------------------------------------------
\* Properties of the filters (SpecFilter).

SingleValued == {"img_id", "filename", "author", "universe"}
MultiValued == {"characters", "tags"}

\* The values that the constraints accumulated on a field include and
\* exclude.
Included(field) == {c.match : c \in {d \in BagToSet(sets[field].constraints) : ~d.inverted}}
Excluded(field) == {c.match : c \in {d \in BagToSet(sets[field].constraints) : d.inverted}}

\* The value that a record holds for a single-valued field: the file name is
\* the record's second component, which data/common.py calls file.
ValueOf(metadata, field) == IF field = "filename" THEN metadata.file ELSE metadata[field]

\* Whether a multi-valued field of a record contains v; an absent field
\* contains None and nothing else.
Has(metadata, field, v) ==
    IF metadata[field].some
    THEN \E k \in 1..Len(metadata[field].items) : metadata[field].items[k] = v
    ELSE v = None

\* The field of the filter that was asked last, "none" if there is none.
Asked == verdict.filter.constraints_set

\* C17: for a single-valued field with at least one exclusion, the filter
\* returns true iff the record's value is not among the excluded values,
\* whatever the inclusions.
C17_ExclusionsDominate ==
    (Asked \in SingleValued /\ Excluded(Asked) # {}) =>
        /\ verdict.exc = "none"
        /\ verdict.ret <=> (ValueOf(verdict.metadata, Asked) \notin Excluded(Asked))

\* C18: for a single-valued field with inclusions only, the filter returns
\* true iff the record's value is among the included values; for any field
\* without constraints the filter returns true for every record.
C18_InclusionsOnly ==
    /\ (Asked \in SingleValued /\ Excluded(Asked) = {} /\ Included(Asked) # {}) =>
          /\ verdict.exc = "none"
          /\ verdict.ret <=> (ValueOf(verdict.metadata, Asked) \in Included(Asked))
    /\ (Asked \in Fields /\ Excluded(Asked) = {} /\ Included(Asked) = {}) =>
          (verdict.exc = "none" /\ verdict.ret)

\* C19: for a multi-valued field evaluated conjunctively with at least one
\* constraint, the filter returns true iff the record's values contain every
\* included value and none of the excluded ones.
C19_Conjunctive ==
    (/\ Asked \in MultiValued
     /\ ~sets[Asked].is_disjunctive
     /\ Included(Asked) \cup Excluded(Asked) # {}) =>
        /\ verdict.exc = "none"
        /\ verdict.ret <=>
              /\ \A v \in Included(Asked) : Has(verdict.metadata, Asked, v)
              /\ \A v \in Excluded(Asked) : ~Has(verdict.metadata, Asked, v)

\* C19 witness: a conjunctive filter with two inclusions accepted a record;
\* another with an inclusion and an exclusion rejected one holding both.
C19_Witness ==
    /\ Asked \in MultiValued
    /\ ~sets[Asked].is_disjunctive
    /\ Cardinality(Included(Asked)) = 2
    /\ verdict.metadata[Asked].some
    /\ verdict.ret

\* C20: for a multi-valued field evaluated disjunctively with at least one
\* constraint, the filter returns true iff the record's values contain some
\* included value or lack some excluded value; with exclusions only a record
\* is rejected exactly when it contains all the excluded values.
C20_Disjunctive ==
    (/\ Asked \in MultiValued
     /\ sets[Asked].is_disjunctive
     /\ Included(Asked) \cup Excluded(Asked) # {}) =>
        /\ verdict.exc = "none"
        /\ verdict.ret <=>
              \/ \E v \in Included(Asked) : Has(verdict.metadata, Asked, v)
              \/ \E v \in Excluded(Asked) : ~Has(verdict.metadata, Asked, v)
        /\ Included(Asked) = {} =>
              (~verdict.ret <=> \A v \in Excluded(Asked) : Has(verdict.metadata, Asked, v))

\* C20 witness: a disjunctive filter with two exclusions accepted a record
\* that contains one of the two excluded values.
C20_Witness ==
    /\ Asked \in MultiValued
    /\ sets[Asked].is_disjunctive
    /\ Included(Asked) = {}
    /\ Cardinality(Excluded(Asked)) = 2
    /\ \E v \in Excluded(Asked) : Has(verdict.metadata, Asked, v)
    /\ verdict.ret

AddedOnce ==
    [sets EXCEPT ![Asked].constraints = SetToBag(BagToSet(@))]

\* C37: the predicate obtained for a field is the one that the builder
\* gives when each distinct (value, inverted) pair has been added to the
\* field once, and it answers alike on every record.
C37_DistinctPairsDecide ==
    Asked # "none" =>
        LET f == IF Asked \in SingleValued
                 THEN make_single_value_filter(AddedOnce, Asked)
                 ELSE make_multi_value_filter(AddedOnce, Asked)
        IN /\ verdict.filter = f
           /\ verdict.ret = invoke(f, verdict.metadata).ret
           /\ verdict.exc = invoke(f, verdict.metadata).exc

\* C37 witness: an author filter built from the same inclusion added twice
\* has rejected a record of another author.
C37_Witness ==
    /\ Asked = "author"
    /\ \E c \in BagToSet(sets["author"].constraints) :
          ~c.inverted /\ CopiesIn(c, sets["author"].constraints) = 2
    /\ verdict.exc = "none"
    /\ ~verdict.ret

----------------------------------------------------------------------------
\* Properties of the evaluation modes (SpecMode).

\* The answer that the constraints accumulated on a field call for in
\* conjunctive and in disjunctive evaluation.
Conjunctively(metadata, field) ==
    /\ \A v \in Included(field) : Has(metadata, field, v)
    /\ \A v \in Excluded(field) : ~Has(metadata, field, v)
Disjunctively(metadata, field) ==
    \/ \E v \in Included(field) : Has(metadata, field, v)
    \/ \E v \in Excluded(field) : ~Has(metadata, field, v)

\* A step in which characters_as_disjunctive(flag) or tags_as_disjunctive(flag)
\* is called leaves the flag in the field's mode and the rest of _sets as
\* it was.
ToggleSetsOwnMode ==
    \A field \in MultiValued, flag \in BOOLEAN :
        Toggle(field, flag) =>
            /\ sets'[field].is_disjunctive = flag
            /\ sets'[field].constraints = sets[field].constraints
            /\ \A other \in Fields \ {field} : sets'[other] = sets[other]

\* A filter that the caller keeps answers in the mode that was in force
\* when it was obtained.
HeldKeepsMode ==
    (/\ held.called
     /\ Included(held.filter.constraints_set) \cup Excluded(held.filter.constraints_set) # {}) =>
        /\ held.exc = "none"
        /\ held.ret <=> IF held.is_disjunctive
                        THEN Disjunctively(held.metadata, held.filter.constraints_set)
                        ELSE Conjunctively(held.metadata, held.filter.constraints_set)

\* C22: a new FilterBuilder evaluates characters and tags conjunctively;
\* characters_as_disjunctive and tags_as_disjunctive each set their own
\* field's mode and leave the other mode and every constraint unchanged; a
\* filter uses the mode in force when it was requested.
C22_ModesIndependent ==
    /\ ~sets["characters"].is_disjunctive /\ ~sets["tags"].is_disjunctive
    /\ [][ToggleSetsOwnMode]_vars
    /\ []HeldKeepsMode

\* C22 witness: a filter obtained in conjunctive mode was called after its
\* field had been made disjunctive, on a record that the two modes judge
\* differently, while the other field stayed conjunctive.
C22_Witness ==
    /\ held.called
    /\ ~held.is_disjunctive
    /\ sets[held.filter.constraints_set].is_disjunctive
    /\ \E other \in MultiValued \ {held.filter.constraints_set} : ~sets[other].is_disjunctive
    /\ Conjunctively(held.metadata, held.filter.constraints_set)
          # Disjunctively(held.metadata, held.filter.constraints_set)

----------------------------------------------------------------------------
\* Properties of a filter that outlives changes of the builder
\* (SpecSnapshot).

\* What the builder would hand out now for the field of the kept filter.
HandedOutNow ==
    IF held.filter.constraints_set \in MultiValued
    THEN make_multi_value_filter(sets, held.filter.constraints_set)
    ELSE make_single_value_filter(sets, held.filter.constraints_set)

\* C38: a filter answers on a record as it did when it was obtained,
\* whatever constraints and modes the builder was given since, and the
\* steps in which the caller obtains or calls a filter leave the
\* builder's constraint sets and mode flags as they were.
C38_FilterIsSnapshot ==
    /\ [](held.called =>
             /\ held.filter = verdict.filter
             /\ held.metadata = verdict.metadata
             /\ held.ret = verdict.ret
             /\ held.exc = verdict.exc)
    /\ [][(held' # held \/ verdict' # verdict) => sets' = sets]_vars

C38_Witness ==
    /\ held.called
    /\ held.ret = verdict.ret
    /\ HandedOutNow # held.filter
    /\ invoke(HandedOutNow, held.metadata).ret # held.ret

----------------------------------------------------------------------------
\* Properties of the construction (SpecConstruct).

\* The entries of the directory that are regular files with an image
\* extension, in listing order.
ImageEntries == SelectSeq(directory.listing, LAMBDA e : e.is_file /\ e.ext \in {"png", "jpg"})

\* The record that an image is judged on: the one of its sidecar when there
\* is a readable, well-formed one, a blank one otherwise.
RecordOf(e) ==
    IF \E k \in 1..Len(directory.listing) :
         /\ directory.listing[k].stem = e.stem
         /\ directory.listing[k].ext = "xml"
         /\ directory.listing[k].is_file
         /\ directory.listing[k].content = "valid"
    THEN ImageMetadata(2, 2, 1, None, NoList, NoList)
    ELSE ImageMetadata(1, e.stem, None, None, NoList, NoList)

\* C14: on a path that does not exist the constructor fails with
\* FileNotFoundError, on an existing path that is not a directory with
\* NotADirectoryError; no Carousel is created in either case.
C14_BadDirectory ==
    made.done =>
        /\ ~directory.exists => (made.out.exc = "FileNotFoundError" /\ ~made.out.created)
        /\ (directory.exists /\ ~directory.is_dir) =>
              (made.out.exc = "NotADirectoryError" /\ ~made.out.created)

\* C14 witness: the constructor was called on a path where nothing exists,
\* which is_dir() denies as well.
C14_Witness ==
    /\ made.done
    /\ ~directory.exists
    /\ ~directory.is_dir
    /\ made.out.exc = "FileNotFoundError"

\* C15: without predicates the candidates are exactly the direct children
\* that are regular files with an image MIME type, N of them whatever the
\* other entries and the listing order.
C15_ImagesOnly ==
    (made.done /\ directory.is_dir /\ made.metadata_filters = <<>>) =>
        /\ made.out.created
        /\ made.out.image_files = [k \in 1..Len(ImageEntries) |-> PathOf(ImageEntries[k])]
        /\ made.out.current = -1

\* C15 witness: one image among two other entries, listed last.
C15_Witness ==
    /\ made.done
    /\ made.metadata_filters = <<>>
    /\ Len(directory.listing) = 3
    /\ Len(made.out.image_files) = 1
    /\ directory.listing[3].ext = "jpg"
    /\ directory.listing[1].ext = "xml"

\* C16: with predicates, an image file is a candidate iff every predicate
\* returns true on the record loaded for it, a blank record when it has no
\* readable sidecar.
C16_AllPredicates ==
    (made.done /\ made.out.created /\ made.metadata_filters # <<>>) =>
        LET kept == SelectSeq(ImageEntries,
                        LAMBDA e : \A k \in 1..Len(made.metadata_filters) :
                                      invoke(made.metadata_filters[k], RecordOf(e)).ret)
        IN made.out.image_files = [k \in 1..Len(kept) |-> PathOf(kept[k])]

\* C16 witness: of two images, the one with a sidecar passed two predicates
\* and the one without was excluded by one of them.
C16_Witness ==
    /\ made.done
    /\ made.out.created
    /\ Len(made.metadata_filters) = 2
    /\ made.metadata_filters[1] # made.metadata_filters[2]
    /\ Len(ImageEntries) = 2
    /\ Len(made.out.image_files) = 1
    /\ RecordOf(ImageEntries[1]) # RecordOf(ImageEntries[2])

----------------------------------------------------------------------------
\* Properties of View.__init__ with a FilterBuilder (SpecBuild).

\* _sets without the constraints accumulated on id and filename.
WithoutIdAndFilename ==
    [sets EXCEPT !["img_id"] = FilterBuilder["img_id"],
                 !["filename"] = FilterBuilder["filename"]]

----------------------------------------------------------------------------
\* Properties of the setters of the View (SpecEdit).

\* The strings that the View stores: author, universe, each character and
\* each tag that is not None.
Stored ==
    {o.text : o \in {o \in {view.author, view.universe} : o.some}}
        \cup {view.characters.items[k].text : k \in 1..Len(view.characters.items)}
        \cup {view.tags.items[k].text : k \in 1..Len(view.tags.items)}

\* C28 as stated: no stored string is empty.
C28_NoEmptyStringStored == \A t \in Stored : t # <<>>

\* The items that the comma-separated pieces of the input stand for, in the
\* order of the input.
Pieces(input) ==
    [k \in 1..Len(split(input, ",")) |->
        Text(remove_control_and_redundant_space(split(input, ",")[k]))]

\* C29: every stored string is free of control and space-class characters
\* other than the ASCII space, has no two adjacent spaces and no leading or
\* trailing space; characters and tags hold one item for each
\* comma-separated piece of a non-empty input, in the order of the input.
C29_StoredTextIsNormalised ==
    /\ \A t \in Stored :
          /\ \A k \in 1..Len(t) : ~in_table_c21_c22(t[k])
          /\ \A k \in 1..(Len(t) - 1) : ~(t[k] = " " /\ t[k + 1] = " ")
          /\ t # <<>> => (t[1] # " " /\ t[Len(t)] # " ")
    /\ \A a \in {"characters", "tags"} :
          (a \in view.assigned /\ called.input # <<>>) =>
              LET stored == IF a = "characters" THEN view.characters ELSE view.tags
              IN stored = List(Pieces(called.input))

\* C29 witness: an input with a tab after the comma has been stored as
\* author and as two characters.
C29_Witness ==
    /\ called.input = <<"a", ",", "\t", "b">>
    /\ view.author = Text(<<"a", ",", " ", "b">>)
    /\ view.characters = List(<<Text(<<"a">>), Text(<<"b">>)>>)

----------------------------------------------------------------------------
\* Properties of load_meta and write_meta (SpecCodec).

\* The blank record that load_meta makes for image 1.
IsBlank(metadata) ==
    /\ metadata.file = basename(1)
    /\ metadata.author = Absent
    /\ metadata.universe = Absent
    /\ metadata.characters = NoList
    /\ metadata.tags = NoList
    /\ metadata.img_id \notin {sidecars[1].data.id.uuid, called.written.img_id}

\* C24 as stated: load_meta never raises, and returns a blank record with a
\* fresh id when the sidecar is absent, unreadable, not well-formed or
\* well-formed with a missing or non-UUID id.
C24_LoadNeverRaises ==
    called.op = "load_meta" =>
        /\ called.exc = "none"
        /\ (\/ ~sidecars[1].exists
            \/ ~sidecars[1].readable
            \/ ~sidecars[1].data.well_formed
            \/ sidecars[1].data.id.kind # "uuid") => IsBlank(called.metadata)

Carried(o) ==
    o.some => (o.text # <<>> /\ \A k \in 1..Len(o.text) : o.text[k] \notin NotXmlChars \cup {"\r"})

\* A record whose strings are all carried as they are and whose characters
\* and tags are None or non-empty.
Plain(metadata) ==
    /\ Carried(metadata.author)
    /\ Carried(metadata.universe)
    /\ \A l \in {metadata.characters, metadata.tags} :
          l.some => (l.items # <<>> /\ \A k \in 1..Len(l.items) : Carried(l.items[k]))

C26_NoElementForEmptyField ==
    (called.op = "write_meta" /\ called.exc = "none") =>
        /\ sidecars[1].data.author.present
              <=> (called.metadata.author.some /\ called.metadata.author.text # <<>>)
        /\ sidecars[1].data.universe.present
              <=> (called.metadata.universe.some /\ called.metadata.universe.text # <<>>)
        /\ sidecars[1].data.characters.present
              <=> (called.metadata.characters.some /\ called.metadata.characters.items # <<>>)
        /\ sidecars[1].data.tags.present
              <=> (called.metadata.tags.some /\ called.metadata.tags.items # <<>>)

----------------------------------------------------------------------------
\* Properties of the View and the sidecars (SpecView).

\* C27: View.write() on an image whose sidecar cannot be opened for writing
\* ends with OSError, and ends without error only with the sidecar holding
\* the record of the View; load_meta on a sidecar that cannot be opened for
\* reading raises no OSError and returns a blank record.
C27_WriteFailureSurfacesLoadFailureMasked ==
    /\ (called.op = "write" /\ unassigned(view) = 0) =>
          /\ ~sidecars[view.image_path].writable => called.exc = "OSError"
          /\ called.exc = "none" =>
                /\ sidecars[view.image_path].exists
                /\ sidecars[view.image_path].data =
                      Xml(IdText(view.id), view.image_path,
                          IF view.author.some THEN Element(view.author.text) ELSE NoElement,
                          IF view.universe.some THEN Element(view.universe.text) ELSE NoElement,
                          sidecars[view.image_path].data.characters,
                          sidecars[view.image_path].data.tags)
                /\ sidecars[view.image_path].data.characters.present = view.characters.some
                /\ sidecars[view.image_path].data.tags.present = view.tags.some
    /\ (/\ called.op \in {"load_prev", "load_next"}
        /\ called.moved
        /\ sidecars[view.image_path].exists
        /\ ~sidecars[view.image_path].readable) =>
          /\ called.exc # "OSError"
          /\ called.metadata.file = basename(view.image_path)
          /\ called.metadata.author = Absent
          /\ called.metadata.universe = Absent
          /\ called.metadata.characters = NoList
          /\ called.metadata.tags = NoList

\* C27 witness: write() has failed with OSError on a sidecar without write
\* permission, after load_meta returned a blank record for a sidecar
\* without read permission.
C27_Witness ==
    /\ called.op = "write"
    /\ called.exc = "OSError"
    /\ ~sidecars[view.image_path].writable
    /\ \E k \in DOMAIN sidecars : sidecars[k].exists /\ ~sidecars[k].readable
    /\ view.author = Text(<<"b", ",", "a">>)

\* The record that load_meta returns for the image of the View, as the View
\* would show it.
ShowsPersisted ==
    /\ called.exc = "none"
    /\ view.id = called.metadata.img_id
    /\ view.author = called.metadata.author
    /\ view.universe = called.metadata.universe
    /\ view.characters = called.metadata.characters
    /\ view.tags = called.metadata.tags

\* C30 as stated: as long as write() has not succeeded every sidecar is as
\* it was when the View was made, and after load_prev / load_next has moved
\* to an image that was left with unwritten edits the View shows the record
\* that load_meta returns for it.
C30_OnlyWriteTouchesSidecars ==
    /\ ~called.wrote => \A k \in DOMAIN sidecars : sidecars[k] \in ViewSidecars(k)
    /\ (/\ called.op \in {"load_prev", "load_next"}
        /\ called.moved
        /\ view.image_path \in called.abandoned) => ShowsPersisted

----------------------------------------------------------------------------
\* Properties of the View browsed under deletions (SpecBrowse).

\* The step is a call of op on the View (a deletion is noted in last).
ViewCalled(op) == called'.op = op /\ last' = last

\* No candidate on the side of the cursor where op moves is on disk.
AtBoundary(op) ==
    IF op = "load_prev"
    THEN LiveBefore(image_files, current, disk) = {}
    ELSE LiveAfter(image_files, current, disk) = {}

\* C31 as stated: load_prev() / load_next() called with no live candidate
\* on its side raises StopIteration and leaves the image path, the working
\* copy and the answers of has_prev() and has_next() as they were.
C31_BoundaryLeavesViewUnchanged ==
    [][\A op \in {"load_prev", "load_next"} :
          (ViewCalled(op) /\ AtBoundary(op)) =>
              /\ called'.exc = "StopIteration"
              /\ view' = view
              /\ has_prev(image_files', current', disk).ret = has_prev(image_files, current, disk).ret
              /\ has_prev(image_files', current', disk).exc = has_prev(image_files, current, disk).exc
              /\ has_next(image_files', current', disk).ret = has_next(image_files, current, disk).ret
              /\ has_next(image_files', current', disk).exc = has_next(image_files, current, disk).exc]_vars

----------------------------------------------------------------------------
\* Properties of write() followed by load_meta (SpecSave).

\* C32 as stated: load_meta after View.write(), with no setter called in
\* between, returns the id, author, universe, characters and tags of the
\* View.
C32_WrittenCopyLoadsBack ==
    (called.op = "load_meta" /\ called.wrote /\ ~called.dirty) =>
        /\ called.exc = "none"
        /\ called.metadata.img_id = view.id
        /\ called.metadata.author = view.author
        /\ called.metadata.universe = view.universe
        /\ called.metadata.characters = view.characters
        /\ called.metadata.tags = view.tags

----------------------------------------------------------------------------
\* Further properties of the Carousel under arbitrary calls and deletions
\* (Spec).

\* The path that the cursor designated before the latest call, 0 if none.
PathBefore ==
    IF last.cur0 >= 0 /\ last.cur0 < Len(last.files0) THEN At(last.files0, last.cur0) ELSE 0

\* C33 as stated: a successful prev() returns the nearest candidate on disk
\* before the cursor, a successful next() the nearest one after it, and
\* neither returns the path the cursor was on.
C33_MoveToNearestLive ==
    (last.op \in Moves /\ last.exc = "none") =>
        /\ last.path # PathBefore
        /\ last.op = "prev" =>
              /\ LiveBefore(last.files0, last.cur0, disk) # {}
              /\ last.path = At(last.files0, Max(LiveBefore(last.files0, last.cur0, disk)))
        /\ last.op = "next" =>
              /\ LiveAfter(last.files0, last.cur0, disk) # {}
              /\ last.path = At(last.files0, Min(LiveAfter(last.files0, last.cur0, disk)))

\* C34 as stated: has_prev() and has_next() return without raising, and
\* prev() and next() raise nothing but StopIteration.
C34_OnlyStopIteration ==
    /\ last.op \in Checks => last.exc = "none"
    /\ last.op \in Moves => last.exc \in {"none", "StopIteration"}

\* C35 as stated: has_next() leaves the cursor index and the candidates up
\* to it as they were; has_prev() removes candidates before the cursor only
\* and moves the cursor index back by the number removed, so that the path
\* of the cursor and the candidates after it are as they were.
C35_ChecksKeepCurrentPath ==
    /\ last.op = "has_next" =>
          /\ current = last.cur0
          /\ \A i \in 0..last.cur0 :
                InRange(last.files0, i) =>
                    (InRange(image_files, i) /\ At(image_files, i) = At(last.files0, i))
    /\ last.op = "has_prev" =>
          LET removed == Len(last.files0) - Len(image_files) IN
          /\ current = last.cur0 - removed
          /\ \A i \in 0..(Len(last.files0) - 1) :
                i >= last.cur0 =>
                    (InRange(image_files, i - removed)
                        /\ At(image_files, i - removed) = At(last.files0, i))

----------------------------------------------------------------------------
\* Properties of has_prev() and has_next() frame by frame (SpecRetry).

\* C36: a call of has_prev() or has_next() on a sequence of length L ends
\* within L + 1 frames: every frame but the last removes one candidate, so
\* that there are at most L removals and at most L + 1 existence checks,
\* also when files are deleted between the frames.
C36_CallsTerminate ==
    /\ running.frames <= running.length + 1
    /\ running.removals <= running.length
    /\ running.checks <= running.length + 1
    /\ running.result = "retry" =>
          /\ running.removals = running.frames
          /\ Len(image_files) = running.length - running.removals
    /\ (running.op # "none" /\ running.result # "retry") =>
          running.removals = running.frames - 1

\* C36 witness: a has_next() has ended after removing three candidates, the
\* last of which was deleted from disk while the call was under way.
C36_Witness ==
    /\ running.op = "has_next"
    /\ running.result = "False"
    /\ running.removals = 3
    /\ last.op = "remove"
    /\ Len(last.files0) < running.length

----------------------------------------------------------------------------
\* Properties of the sidecars of images that share a stem (SpecTwins).

\* What load_meta(img_file) returns when the sidecars are ss and uuid4()
\* gives n.
Returned(ss, img_file, n) ==
    load_meta_file(ss[construct_metadata_path(img_file)], img_file, n)

\* C39: a write() on one image leaves what load_meta returns for every
\* other image of the directory as it was, images that differ from the
\* one written in extension only included.
C39_WriteLeavesOtherImages ==
    [][called'.op = "write" =>
          \A img_file \in (1..Len(snapshot)) \ {view.image_path} :
              Returned(sidecars', img_file, uuid4) = Returned(sidecars, img_file, uuid4)]_vars

----------------------------------------------------------------------------
\* Properties of the GtkView under decoding errors (SpecGtk).

\* C40: a load_prev() or load_next() that has moved the Carousel ends
\* without error or with the error of the decoder, and whatever calls
\* succeeded and failed, the View holds a path only together with the image
\* decoded from that path and a working copy loaded for that path.
C40_ViewConsistent ==
    /\ (called.op \in {"load_prev", "load_next"} /\ called.moved) =>
          called.exc \in {"none", "GLibError"}
    /\ "_image_path" \in view.assigned =>
          /\ "_current_image" \in view.assigned
          /\ view.current_image = view.image_path
          /\ "_filename" \in view.assigned
          /\ view.filename = view.image_path

====
